---- MODULE Spec2Model ----
(***************************************************************************)
(* Course-outline-to-calendar: the event-to-calendar compilation pipeline  *)
(* (services/ics_generator.py) and its validation layer                    *)
(* (services/event_validator.py), over the event model (models/event.py).  *)
(*                                                                         *)
(* Python values are tagged records: [k |-> "none"], [k |-> "str", v |->   *)
(* <<chars>>], [k |-> "int", v |-> n], [k |-> "list", v |-> <<...>>],      *)
(* [k |-> "dict", v |-> record]; a dict key that is missing holds          *)
(* [k |-> "absent"].  Strings are sequences of one-character strings, so   *)
(* that parsing, upper(), lower() and len() are computed, not assumed.     *)
(***************************************************************************)
EXTENDS Integers, Sequences, FiniteSets, TLC

\* ------------------------------------------------------------------------
\* Python values
\* ------------------------------------------------------------------------
PyNone == [k |-> "none"]

Absent == [k |-> "absent"]

PyStr(s) == [k |-> "str", v |-> s]

PyInt(n) == [k |-> "int", v |-> n]

PyList(l) == [k |-> "list", v |-> l]

\* a list whose elements are strings (PyList holds integers)
PyStrList(l) == [k |-> "strlist", v |-> l]

PyDict(d) == [k |-> "dict", v |-> d]

\* d.get(key, default) and the `key in d` test, for a dict held as a record
\* whose missing keys hold Absent.
HasKey(d, key) == d[key].k # "absent"

Get(d, key, default) == IF HasKey(d, key) THEN d[key] ELSE default

\* Python truthiness: None, "", 0, [] and {} are false.
Truthy(x) ==
    CASE x.k = "absent" -> FALSE
      [] x.k = "none"   -> FALSE
      [] x.k = "str"    -> x.v # <<>>
      [] x.k = "int"    -> x.v # 0
      [] x.k = "list"   -> x.v # <<>>
      [] x.k = "strlist" -> x.v # <<>>
      [] x.k = "dict"   -> \E f \in DOMAIN x.v : x.v[f].k # "absent"
      [] x.k = "bool"   -> x.v
      [] OTHER          -> TRUE

\* ------------------------------------------------------------------------
\* Strings as character sequences
\* ------------------------------------------------------------------------
LowerChars == <<"a","b","c","d","e","f","g","h","i","j","k","l","m",
                "n","o","p","q","r","s","t","u","v","w","x","y","z">>

UpperChars == <<"A","B","C","D","E","F","G","H","I","J","K","L","M",
                "N","O","P","Q","R","S","T","U","V","W","X","Y","Z">>

DigitChars == <<"0","1","2","3","4","5","6","7","8","9">>

UpperChar(c) ==
    IF \E i \in 1..Len(LowerChars) : LowerChars[i] = c
    THEN UpperChars[CHOOSE i \in 1..Len(LowerChars) : LowerChars[i] = c]
    ELSE c

LowerChar(c) ==
    IF \E i \in 1..Len(UpperChars) : UpperChars[i] = c
    THEN LowerChars[CHOOSE i \in 1..Len(UpperChars) : UpperChars[i] = c]
    ELSE c

\* str.upper() / str.lower()
StrUpper(s) == [i \in 1..Len(s) |-> UpperChar(s[i])]

StrLower(s) == [i \in 1..Len(s) |-> LowerChar(s[i])]

IsDigit(c) == \E i \in 1..Len(DigitChars) : DigitChars[i] = c

DigitVal(c) == (CHOOSE i \in 1..Len(DigitChars) : DigitChars[i] = c) - 1

\* every character of s[i..j] (1-based, inclusive) is a decimal digit
AllDigits(s, i, j) == \A n \in i..j : n <= Len(s) /\ IsDigit(s[n])

RECURSIVE NumVal(_, _, _)
\* the decimal value of the digits s[i..j]
NumVal(s, i, j) ==
    IF j < i THEN 0 ELSE NumVal(s, i, j - 1) * 10 + DigitVal(s[j])

\* f"{n:02d}" and f"{n:04d}"
Pad2(n) == <<DigitChars[((n \div 10) % 10) + 1], DigitChars[(n % 10) + 1]>>

Pad4(n) == Pad2(n \div 100) \o Pad2(n % 100)

\* ------------------------------------------------------------------------
\* Calendar arithmetic (datetime.date)
\* ------------------------------------------------------------------------
IsLeap(y) == (y % 4 = 0 /\ y % 100 # 0) \/ y % 400 = 0

DaysInMonth(y, m) ==
    CASE m \in {1, 3, 5, 7, 8, 10, 12} -> 31
      [] m \in {4, 6, 9, 11}           -> 30
      [] OTHER                         -> IF IsLeap(y) THEN 29 ELSE 28

RECURSIVE DaysBeforeMonth(_, _)
DaysBeforeMonth(y, m) ==
    IF m <= 1 THEN 0 ELSE DaysBeforeMonth(y, m - 1) + DaysInMonth(y, m - 1)

\* date.toordinal(): days since 0001-01-01, that day being 1
ToOrdinal(y, m, d) ==
    (y - 1) * 365 + (y - 1) \div 4 - (y - 1) \div 100 + (y - 1) \div 400
    + DaysBeforeMonth(y, m) + d

ValidDate(y, m, d) ==
    /\ y >= 1
    /\ m \in 1..12
    /\ d >= 1
    /\ d <= DaysInMonth(y, m)

\* A raised exception is a record [ok |-> FALSE, exc |-> name].
Raise(name) == [ok |-> FALSE, exc |-> name]

Ok(value) == [ok |-> TRUE, val |-> value]

NaiveTz == [k |-> "naive"]

FixedTz(minutes) == [k |-> "fixed", off |-> minutes]

\* the time-of-day part of an ISO string: HH:MM or HH:MM:SS, from position p
\* to position q of s
ParseIsoTime(s, p, q) ==
    LET n == q - p + 1
        shapeOk ==
            /\ n \in {5, 8}
            /\ AllDigits(s, p, p + 1) /\ s[p + 2] = ":"
            /\ AllDigits(s, p + 3, p + 4)
            /\ (n = 8 => (s[p + 5] = ":" /\ AllDigits(s, p + 6, p + 7)))
    IN  IF ~shapeOk THEN Raise("ValueError")
        ELSE LET h  == NumVal(s, p, p + 1)
                 mi == NumVal(s, p + 3, p + 4)
                 se == IF n = 8 THEN NumVal(s, p + 6, p + 7) ELSE 0
             IN  IF h <= 23 /\ mi <= 59 /\ se <= 59
                 THEN Ok([h |-> h, mi |-> mi, s |-> se])
                 ELSE Raise("ValueError")

\* the UTC offset suffix +HH:MM / -HH:MM at s[p..p+5]
ParseIsoOffset(s, p) ==
    LET shapeOk ==
            /\ Len(s) = p + 5
            /\ s[p] \in {"+", "-"}
            /\ AllDigits(s, p + 1, p + 2) /\ s[p + 3] = ":"
            /\ AllDigits(s, p + 4, p + 5)
    IN  IF ~shapeOk THEN Raise("ValueError")
        ELSE LET h  == NumVal(s, p + 1, p + 2)
                 mi == NumVal(s, p + 4, p + 5)
                 m  == h * 60 + mi
             IN  IF h <= 23 /\ mi <= 59
                 THEN Ok(FixedTz(IF s[p] = "-" THEN 0 - m ELSE m))
                 ELSE Raise("ValueError")

\* datetime.fromisoformat(x) for a Python value x: YYYY-MM-DD, optionally
\* followed by one separator character and HH:MM[:SS], optionally followed
\* by +HH:MM or -HH:MM.  A value that is not a str raises TypeError.
FromIsoFormat(x) ==
    IF x.k # "str" THEN Raise("TypeError")
    ELSE
    LET s == x.v
        dateOk ==
            /\ Len(s) >= 10
            /\ AllDigits(s, 1, 4) /\ s[5] = "-"
            /\ AllDigits(s, 6, 7) /\ s[8] = "-"
            /\ AllDigits(s, 9, 10)
    IN  IF ~dateOk THEN Raise("ValueError")
        ELSE
        LET y == NumVal(s, 1, 4)
            m == NumVal(s, 6, 7)
            d == NumVal(s, 9, 10)
            \* the end of the time part: before a trailing offset, if any
            hasOff == Len(s) >= 17 /\ s[Len(s) - 5] \in {"+", "-"}
            tEnd == IF hasOff THEN Len(s) - 6 ELSE Len(s)
            t == IF Len(s) = 10 THEN Ok([h |-> 0, mi |-> 0, s |-> 0])
                 ELSE IF Len(s) < 12 THEN Raise("ValueError")
                 ELSE ParseIsoTime(s, 12, tEnd)
            z == IF hasOff THEN ParseIsoOffset(s, Len(s) - 5) ELSE Ok(NaiveTz)
        IN  IF ~ValidDate(y, m, d) \/ ~t.ok \/ ~z.ok THEN Raise("ValueError")
            ELSE Ok([y |-> y, mo |-> m, d |-> d,
                     h |-> t.val.h, mi |-> t.val.mi, s |-> t.val.s,
                     tz |-> z.val])

\* the positions of "-" in s
DashPositions(s) == {i \in 1..Len(s) : s[i] = "-"}

\* datetime.strptime(x, "%Y-%m-%d"): four digits, then one or two digits for
\* the month and for the day; the result is the naive datetime at midnight.
StrptimeDate(x) ==
    IF x.k # "str" THEN Raise("TypeError")
    ELSE
    LET s == x.v
        dashes == DashPositions(s)
    IN  IF Cardinality(dashes) # 2 \/ ~(5 \in dashes) THEN Raise("ValueError")
        ELSE
        LET p2 == CHOOSE i \in dashes : i # 5
            shapeOk ==
                /\ AllDigits(s, 1, 4)
                /\ p2 - 6 \in {1, 2} /\ AllDigits(s, 6, p2 - 1)
                /\ Len(s) - p2 \in {1, 2} /\ AllDigits(s, p2 + 1, Len(s))
        IN  IF ~shapeOk THEN Raise("ValueError")
            ELSE
            LET y == NumVal(s, 1, 4)
                m == NumVal(s, 6, p2 - 1)
                d == NumVal(s, p2 + 1, Len(s))
            IN  IF ~ValidDate(y, m, d) THEN Raise("ValueError")
                ELSE Ok([y |-> y, mo |-> m, d |-> d,
                         h |-> 0, mi |-> 0, s |-> 0, tz |-> NaiveTz])

\* datetime.isoformat() of a naive datetime with no microseconds
IsoFormat(dt) ==
    Pad4(dt.y) \o <<"-">> \o Pad2(dt.mo) \o <<"-">> \o Pad2(dt.d) \o <<"T">>
    \o Pad2(dt.h) \o <<":">> \o Pad2(dt.mi) \o <<":">> \o Pad2(dt.s)

\* date.isoformat(), the YYYY-MM-DD text of a date
IsoDate(y, m, d) == Pad4(y) \o <<"-">> \o Pad2(m) \o <<"-">> \o Pad2(d)

\* ------------------------------------------------------------------------
\* ICSGenerator (services/ics_generator.py)
\* ------------------------------------------------------------------------
S_other == <<"o","t","h","e","r">>

S_exam == <<"e","x","a","m">>

S_assignment == <<"a","s","s","i","g","n","m","e","n","t">>

S_lecture == <<"l","e","c","t","u","r","e">>

S_project == <<"p","r","o","j","e","c","t">>

S_office_hours == <<"o","f","f","i","c","e","_","h","o","u","r","s">>

S_daily == <<"d","a","i","l","y">>

S_weekly == <<"w","e","e","k","l","y">>

S_monthly == <<"m","o","n","t","h","l","y">>

S_Unknown == <<"U","n","k","n","o","w","n">>

\* self.default_timezone = pytz.timezone("America/Toronto")
default_timezone == [k |-> "zone", name |-> "America/Toronto"]

\* self.default_timezone.localize(dt), for a naive dt
Localize(dt) == [dt EXCEPT !.tz = default_timezone]

\* timedelta(days=, hours=, minutes=), in minutes
Timedelta(days, hours, minutes) == days * 24 * 60 + hours * 60 + minutes

\* reminder_config with office_hours given the lecture entry
reminder_config_office_hours(event_type) ==
    CASE event_type = PyStr(S_exam) ->
            [trigger |-> Timedelta(0 - 1, 0, 0), description |-> "Exam tomorrow!"]
      [] event_type = PyStr(S_assignment) ->
            [trigger |-> Timedelta(0 - 2, 0, 0), description |-> "Assignment due in 2 days"]
      [] event_type \in {PyStr(S_lecture), PyStr(S_office_hours)} ->
            [trigger |-> Timedelta(0, 0, 0 - 30), description |-> "Class starts in 30 minutes"]
      [] event_type = PyStr(S_project) ->
            [trigger |-> Timedelta(0 - 3, 0, 0), description |-> "Project deadline in 3 days"]
      [] OTHER ->
            [trigger |-> Timedelta(0, 0 - 1, 0), description |-> "Event starting soon"]

\* reminder_config.get(event_type, reminder_config['other'])
reminder_config(event_type) ==
    CASE event_type = PyStr(S_exam) ->
            [trigger |-> Timedelta(0 - 1, 0, 0), description |-> "Exam tomorrow!"]
      [] event_type = PyStr(S_assignment) ->
            [trigger |-> Timedelta(0 - 2, 0, 0), description |-> "Assignment due in 2 days"]
      [] event_type = PyStr(S_lecture) ->
            [trigger |-> Timedelta(0, 0, 0 - 30), description |-> "Class starts in 30 minutes"]
      [] event_type = PyStr(S_project) ->
            [trigger |-> Timedelta(0 - 3, 0, 0), description |-> "Project deadline in 3 days"]
      [] OTHER ->
            [trigger |-> Timedelta(0, 0 - 1, 0), description |-> "Event starting soon"]

\* _create_alarm(event_type): the VALARM component
create_alarm(event_type) ==
    LET cfg == reminder_config(event_type)
    IN  [action |-> "DISPLAY", trigger |-> cfg.trigger, description |-> cfg.description]

days_map == <<"SU", "MO", "TU", "WE", "TH", "FR", "SA">>

\* days_map[day] for a Python int: indices 0..6 count from the front,
\* -7..-1 from the back, anything else raises IndexError
DaysMapIndexOk(day) == day >= 0 - Len(days_map) /\ day <= Len(days_map) - 1

\* days_map read as if 0 were Monday
DaysMapAt_monday_first(day) == days_map[((day + 1) % 7) + 1]

DaysMapAt(day) ==
    IF day >= 0 THEN days_map[day + 1] ELSE days_map[Len(days_map) + day + 1]

\* freq_map.get(frequency, 'WEEKLY')
freq_map(frequency) ==
    CASE frequency = S_daily   -> "DAILY"
      [] frequency = S_weekly  -> "WEEKLY"
      [] frequency = S_monthly -> "MONTHLY"
      [] OTHER                 -> "WEEKLY"

\* the keys of `rule` if a count suppressed the end date
RuleKeys_count_wins(r) ==
    {"FREQ"}
    \cup (IF Truthy(Get(r, "interval", PyNone)) THEN {"INTERVAL"} ELSE {})
    \cup (IF Truthy(Get(r, "endDate", PyNone)) /\ ~Truthy(Get(r, "count", PyNone))
          THEN {"UNTIL"} ELSE {})
    \cup (IF Truthy(Get(r, "daysOfWeek", PyNone)) THEN {"BYDAY"} ELSE {})

\* the keys _create_recurrence_rule sets in `rule`
RuleKeys(r) ==
    {"FREQ"}
    \cup (IF Truthy(Get(r, "interval", PyNone)) THEN {"INTERVAL"} ELSE {})
    \cup (IF Truthy(Get(r, "endDate", PyNone)) THEN {"UNTIL"} ELSE {})
    \cup (IF Truthy(Get(r, "daysOfWeek", PyNone)) THEN {"BYDAY"} ELSE {})

\* the encoder with a COUNT clause for a count given without an end date
create_recurrence_rule_emits_count(r) ==
    LET freq == Get(r, "frequency", PyStr(S_weekly))
        until == StrptimeDate(Get(r, "endDate", PyNone))
        days == Get(r, "daysOfWeek", PyNone)
    IN  IF freq.k # "str" THEN Raise("AttributeError")
        ELSE IF "UNTIL" \in RuleKeys(r) /\ ~until.ok THEN until
        ELSE IF "BYDAY" \in RuleKeys(r) /\ days.k # "list" THEN Raise("TypeError")
        ELSE IF "BYDAY" \in RuleKeys(r)
                /\ \E n \in 1..Len(days.v) : ~DaysMapIndexOk(days.v[n])
             THEN Raise("IndexError")
        ELSE Ok([key \in RuleKeys(r) \cup
                            (IF Truthy(Get(r, "count", PyNone)) /\ "UNTIL" \notin RuleKeys(r)
                             THEN {"COUNT"} ELSE {}) |->
                CASE key = "COUNT" -> <<r["count"]>>
                  [] key = "FREQ" -> <<freq_map(StrLower(freq.v))>>
                  [] key = "INTERVAL" -> <<r["interval"]>>
                  [] key = "UNTIL" ->
                        <<Localize([until.val EXCEPT !.h = 23, !.mi = 59])>>
                  [] key = "BYDAY" ->
                        [n \in 1..Len(days.v) |-> DaysMapAt(days.v[n])]])

\* _create_recurrence_rule(recurrence), recurrence being the dict r
create_recurrence_rule(r) ==
    LET freq == Get(r, "frequency", PyStr(S_weekly))
        until == StrptimeDate(Get(r, "endDate", PyNone))
        days == Get(r, "daysOfWeek", PyNone)
    IN  IF freq.k # "str" THEN Raise("AttributeError")
        ELSE IF "UNTIL" \in RuleKeys(r) /\ ~until.ok THEN until
        ELSE IF "BYDAY" \in RuleKeys(r) /\ days.k # "list" THEN Raise("TypeError")
        ELSE IF "BYDAY" \in RuleKeys(r)
                /\ \E n \in 1..Len(days.v) : ~DaysMapIndexOk(days.v[n])
             THEN Raise("IndexError")
        ELSE Ok([key \in RuleKeys(r) |->
                CASE key = "FREQ" -> <<freq_map(StrLower(freq.v))>>
                  [] key = "INTERVAL" -> <<r["interval"]>>
                  [] key = "UNTIL" ->
                        <<Localize([until.val EXCEPT !.h = 23, !.mi = 59])>>
                  [] key = "BYDAY" ->
                        [n \in 1..Len(days.v) |-> DaysMapAt(days.v[n])]])

\* an alarm attached to every event, recurring or not
EventAlarms_always(d, event_type) == <<create_alarm(event_type)>>

\* _create_event, lines 121-124: an alarm for a non-recurring event only
EventAlarms(d, event_type) ==
    IF ~Truthy(Get(d, "recurrence", PyNone)) THEN <<create_alarm(event_type)>>
    ELSE <<>>

\* _create_event(event_data) for the dict d; uid is what _generate_uid
\* returned for this call
create_event(d, uid) ==
    LET start == FromIsoFormat(d["startDateTime"])
        end == FromIsoFormat(d["endDateTime"])
        event_type == Get(d, "type", PyStr(S_other))
        recurring == Truthy(Get(d, "recurrence", PyNone))
        rrule == create_recurrence_rule(d["recurrence"].v)
        aware(dt) == IF dt.tz = NaiveTz THEN Localize(dt) ELSE dt
    IN  IF ~HasKey(d, "title") THEN Raise("KeyError")
        ELSE IF ~HasKey(d, "startDateTime") THEN Raise("KeyError")
        ELSE IF ~start.ok THEN start
        ELSE IF ~HasKey(d, "endDateTime") THEN Raise("KeyError")
        ELSE IF ~end.ok THEN end
        ELSE IF ~HasKey(d, "location") THEN Raise("KeyError")
        ELSE IF event_type.k # "str" THEN Raise("AttributeError")
        ELSE IF recurring /\ d["recurrence"].k # "dict" THEN Raise("AttributeError")
        ELSE IF recurring /\ ~rrule.ok THEN rrule
        ELSE Ok([summary |-> d["title"],
                 uid |-> Get(d, "id", PyStr(uid)),
                 dtstart |-> aware(start.val),
                 dtend |-> aware(end.val),
                 location |-> d["location"],
                 description |-> IF Truthy(Get(d, "description", PyNone))
                                 THEN d["description"] ELSE Absent,
                 categories |-> <<StrUpper(event_type.v)>>,
                 rrule |-> IF recurring THEN [k |-> "rrule", v |-> rrule.val]
                           ELSE Absent,
                 alarms |-> EventAlarms(d, event_type)])

\* One content line of the serialized document
Line(name, value) == [name |-> name, value |-> value]

\* the content lines of one VALARM sub-component
AlarmLines(a) ==
    <<Line("BEGIN", "VALARM"), Line("ACTION", a.action),
      Line("TRIGGER", a.trigger), Line("DESCRIPTION", a.description),
      Line("END", "VALARM")>>

RECURSIVE AlarmsLines(_)
AlarmsLines(alarms) ==
    IF alarms = <<>> THEN <<>>
    ELSE AlarmLines(Head(alarms)) \o AlarmsLines(Tail(alarms))

\* the content lines of one VEVENT component
EventLines(e) ==
    <<Line("BEGIN", "VEVENT"), Line("SUMMARY", e.summary), Line("UID", e.uid),
      Line("DTSTART", e.dtstart), Line("DTEND", e.dtend),
      Line("LOCATION", e.location)>>
    \o (IF e.description = Absent THEN <<>>
        ELSE <<Line("DESCRIPTION", e.description)>>)
    \o <<Line("CATEGORIES", e.categories)>>
    \o (IF e.rrule = Absent THEN <<>> ELSE <<Line("RRULE", e.rrule.v)>>)
    \o AlarmsLines(e.alarms)
    \o <<Line("END", "VEVENT")>>

RECURSIVE ComponentsLines(_)
ComponentsLines(components) ==
    IF components = <<>> THEN <<>>
    ELSE EventLines(Head(components)) \o ComponentsLines(Tail(components))

\* cal.to_ical().decode('utf-8'): the document as its content lines
ToIcal(c) ==
    <<Line("BEGIN", "VCALENDAR"), Line("PRODID", c.prodid),
      Line("VERSION", c.version), Line("X-WR-CALNAME", c.calname),
      Line("X-WR-TIMEZONE", c.timezone)>>
    \o ComponentsLines(c.components)
    \o <<Line("END", "VCALENDAR")>>

\* ------------------------------------------------------------------------
\* Event records (models/event.py) and the inputs of the model
\* ------------------------------------------------------------------------
EventKeys ==
    {"title", "startDateTime", "endDateTime", "location", "description",
     "type", "recurrence", "id", "needsReview",
     "date", "time", "duration",
     "_parsed_start_dt", "_parsed_end_dt", "_parsed_date", "_parsed_time"}

RecurrenceKeys == {"frequency", "interval", "daysOfWeek", "endDate", "count"}

\* a dict over `keys` holding the fields of f and nothing else
Dict(keys, f) == [key \in keys |-> IF key \in DOMAIN f THEN f[key] ELSE Absent]

\* an event given as a plain dictionary
EventDict(f) == [model |-> FALSE, d |-> Dict(EventKeys, f)]

RecurrenceDict(f) == PyDict(Dict(RecurrenceKeys, f))

\* class EventType(str, Enum): the values of the closed set
EventType ==
    {S_lecture, S_exam, S_assignment, S_project, S_office_hours, S_other}

\* RecurrenceRule(...): the model with its defaults, as model_dump() shows it
RecurrenceRule(f) ==
    PyDict([key \in RecurrenceKeys |->
        IF key \in DOMAIN f THEN f[key]
        ELSE IF key = "interval" THEN PyInt(1)
        ELSE PyNone])

CalendarEventFields ==
    {"title", "startDateTime", "endDateTime", "location", "recurrence",
     "description", "type", "id", "needsReview"}

\* CalendarEvent(...): the model with its defaults
CalendarEvent(f) ==
    [model |-> TRUE,
     d |-> [key \in EventKeys |->
        IF key \in DOMAIN f THEN f[key]
        ELSE IF key \notin CalendarEventFields THEN Absent
        ELSE IF key = "type" THEN PyStr(S_other)
        ELSE IF key = "needsReview" THEN [k |-> "bool", v |-> FALSE]
        ELSE PyNone]]

\* event_data.model_dump() if the event is a model, else the dict itself
model_dump(event_data) == event_data.d

\* ------------------------------------------------------------------------
\* ValidationResult and EventValidator (services/event_validator.py)
\* ------------------------------------------------------------------------
\* ValidationError(field, message, severity); args are the values an
\* f-string message interpolates
ValidationError(field, message, args, severity) ==
    [field |-> field, message |-> message, args |-> args, severity |-> severity]

\* ValidationResult.__init__
NewValidationResult == [is_valid |-> TRUE, errors |-> <<>>, warnings |-> <<>>]

\* ValidationResult.add_error
add_error(result, field, message, args) ==
    [result EXCEPT
        !.errors = Append(@, ValidationError(field, message, args, "error")),
        !.is_valid = FALSE]

\* add_warning if a warning invalidated the result
add_warning_invalidates(result, field, message, args) ==
    [result EXCEPT
        !.warnings = Append(@, ValidationError(field, message, args, "warning")),
        !.is_valid = FALSE]

\* ValidationResult.add_warning
add_warning(result, field, message, args) ==
    [result EXCEPT
        !.warnings = Append(@, ValidationError(field, message, args, "warning"))]

VALID_EVENT_TYPES == {S_lecture, S_exam, S_assignment, S_project, S_other}

valid_frequencies == {S_daily, S_weekly, S_monthly}

RECURSIVE ReplaceZ(_)
\* s.replace('Z', '+00:00')
ReplaceZ(s) ==
    IF s = <<>> THEN <<>>
    ELSE (IF Head(s) = "Z" THEN <<"+","0","0",":","0","0">> ELSE <<Head(s)>>)
         \o ReplaceZ(Tail(s))

\* re.match(DATE_PATTERN, s): ^\d{4}-\d{2}-\d{2}$
MatchesDatePattern(s) ==
    /\ Len(s) = 10
    /\ AllDigits(s, 1, 4) /\ s[5] = "-"
    /\ AllDigits(s, 6, 7) /\ s[8] = "-"
    /\ AllDigits(s, 9, 10)

PyDatetime(dt) == [k |-> "datetime", v |-> dt]

\* minutes of a datetime's wall clock since 0001-01-01T00:00
WallMinutes(dt) == ((ToOrdinal(dt.y, dt.mo, dt.d) - 1) * 24 + dt.h) * 60 + dt.mi

\* a <= b for two datetimes: both naive, or both aware (then compared as
\* instants); one of each raises TypeError
BothNaiveOrAware(a, b) == (a.tz = NaiveTz) <=> (b.tz = NaiveTz)

UtcOffset(dt) == IF dt.tz.k = "fixed" THEN dt.tz.off ELSE 0

DatetimeLe(a, b) ==
    LET ma == WallMinutes(a) - UtcOffset(a)
        mb == WallMinutes(b) - UtcOffset(b)
    IN  ma < mb \/ (ma = mb /\ a.s <= b.s)

\* f'{field.capitalize()} is required'
RequiredMessage(field) ==
    CASE field = "title"         -> "Title is required"
      [] field = "startDateTime" -> "Startdatetime is required"
      [] field = "endDateTime"   -> "Enddatetime is required"
      [] field = "location"      -> "Location is required"
      [] field = "date"          -> "Date is required"
      [] field = "time"          -> "Time is required"
      [] field = "type"          -> "Type is required"

\* A validation in progress: the event dict (validation writes to it), the
\* result so far, and the exception that escaped, if any.
VState(d, result) == [d |-> d, result |-> result, exc |-> ""]

Escaped(st, name) == [st EXCEPT !.exc = name]

\* the required fields of the old format, asked of every event
required_fields_legacy == <<"title", "date", "time", "type">>

\* the required fields of the new unified format, in the order checked
required_fields == <<"title", "startDateTime", "endDateTime", "location">>

RECURSIVE RequiredFrom(_, _)
RequiredFrom(st, n) ==
    IF n > Len(required_fields) THEN st
    ELSE LET field == required_fields[n]
             missing == ~HasKey(st.d, field) \/ ~Truthy(st.d[field])
         IN  RequiredFrom(
                 IF missing
                 THEN [st EXCEPT !.result =
                          add_error(@, field, RequiredMessage(field), <<>>)]
                 ELSE st,
                 n + 1)

\* _validate_required_fields(event_data, result, is_new_format=True)
validate_required_fields(st) == RequiredFrom(st, 1)

\* title.strip(): leading and trailing blanks removed
LStrip(s) ==
    LET filled == {i \in 1..Len(s) : s[i] # " "}
    IN  IF filled = {} THEN <<>>
        ELSE SubSeq(s, CHOOSE i \in filled : \A j \in filled : i <= j, Len(s))

RStrip(s) ==
    LET filled == {i \in 1..Len(s) : s[i] # " "}
    IN  IF filled = {} THEN <<>>
        ELSE SubSeq(s, 1, CHOOSE i \in filled : \A j \in filled : i >= j)

Strip(s) == RStrip(LStrip(s))

\* _validate_title if a title over 200 characters were an error
validate_title_rejects_long(st) ==
    LET title == st.d["title"]
        short == Len(Strip(title.v)) < 3
        long == Len(title.v) > 200
        r1 == IF short
              THEN add_error(st.result, "title",
                             "Title must be at least 3 characters", <<>>)
              ELSE st.result
        r2 == IF long
              THEN add_error(r1, "title",
                               "Title exceeds 200 characters, may be truncated", <<>>)
              ELSE r1
    IN  IF ~HasKey(st.d, "title") THEN st
        ELSE IF title.k # "str"
        THEN [st EXCEPT !.result =
                 add_error(@, "title", "Title must be a string", <<>>)]
        ELSE [st EXCEPT !.result = r2]

\* _validate_title
validate_title(st) ==
    LET title == st.d["title"]
        short == Len(Strip(title.v)) < 3
        long == Len(title.v) > 200
        r1 == IF short
              THEN add_error(st.result, "title",
                             "Title must be at least 3 characters", <<>>)
              ELSE st.result
        r2 == IF long
              THEN add_warning(r1, "title",
                               "Title exceeds 200 characters, may be truncated", <<>>)
              ELSE r1
    IN  IF ~HasKey(st.d, "title") THEN st
        ELSE IF title.k # "str"
        THEN [st EXCEPT !.result =
                 add_error(@, "title", "Title must be a string", <<>>)]
        ELSE [st EXCEPT !.result = r2]

\* _validate_start_datetime
validate_start_datetime(st) ==
    LET x == st.d["startDateTime"]
        parsed == FromIsoFormat(PyStr(ReplaceZ(x.v)))
    IN  IF ~HasKey(st.d, "startDateTime") THEN st
        ELSE IF x.k # "str"
        THEN [st EXCEPT !.result =
                 add_error(@, "startDateTime", "Start datetime must be a string", <<>>)]
        ELSE IF parsed.ok
        THEN [st EXCEPT !.d["_parsed_start_dt"] = PyDatetime(parsed.val)]
        ELSE [st EXCEPT !.result =
                 add_error(@, "startDateTime",
                     "Start datetime must be in ISO 8601 format (YYYY-MM-DDTHH:MM:SS)",
                     <<>>)]

\* _validate_end_datetime
validate_end_datetime(st) ==
    LET x == st.d["endDateTime"]
        parsed == FromIsoFormat(PyStr(ReplaceZ(x.v)))
        start_dt == Get(st.d, "_parsed_start_dt", PyNone)
        stored == [st EXCEPT !.d["_parsed_end_dt"] = PyDatetime(parsed.val)]
    IN  IF ~HasKey(st.d, "endDateTime") THEN st
        ELSE IF x.k # "str"
        THEN [st EXCEPT !.result =
                 add_error(@, "endDateTime", "End datetime must be a string", <<>>)]
        ELSE IF ~parsed.ok
        THEN [st EXCEPT !.result =
                 add_error(@, "endDateTime",
                     "End datetime must be in ISO 8601 format (YYYY-MM-DDTHH:MM:SS)",
                     <<>>)]
        ELSE IF start_dt.k # "datetime" THEN stored
        ELSE IF ~BothNaiveOrAware(parsed.val, start_dt.v)
        THEN Escaped(stored, "TypeError")
        ELSE IF DatetimeLe(parsed.val, start_dt.v)
        THEN [stored EXCEPT !.result =
                 add_error(@, "endDateTime",
                     "End datetime must be after start datetime", <<>>)]
        ELSE stored

\* _validate_location(event_data, result, required=True), lines 231-237
validate_location(st) ==
    IF ~Truthy(Get(st.d, "location", PyNone))
    THEN [st EXCEPT !.result =
             add_error(@, "location", "Location is required", <<>>)]
    ELSE st

\* _validate_type: a type outside VALID_EVENT_TYPES is an error (the source
\* keeps only the add_error call of this function; its condition follows the
\* specification's "must be one of the closed set; unknown value => error")
validate_type(st) ==
    LET t == st.d["type"]
    IN  IF ~HasKey(st.d, "type") THEN st
        ELSE IF t.k = "str" /\ t.v \in VALID_EVENT_TYPES THEN st
        ELSE [st EXCEPT !.result =
                 add_error(@, "type", "Invalid event type. Must be one of: {...}", <<>>)]

\* the date of the parsed start, or None
ParsedStartDate(d) ==
    LET start_dt == Get(d, "_parsed_start_dt", PyNone)
    IN  IF start_dt.k = "datetime"
        THEN [k |-> "date", y |-> start_dt.v.y, mo |-> start_dt.v.mo, d |-> start_dt.v.d]
        ELSE PyNone

DateOrdinal(x) == ToOrdinal(x.y, x.mo, x.d)

\* _validate_recurrence: the frequency check
recurrence_frequency(st, r) ==
    LET frequency == Get(r, "frequency", PyStr(<<>>))
    IN  IF frequency.k # "str" THEN Escaped(st, "AttributeError")
        ELSE IF StrLower(frequency.v) \notin valid_frequencies
        THEN [st EXCEPT !.result =
                 add_error(@, "recurrence.frequency",
                           "Invalid frequency. Must be one of: {...}", <<>>)]
        ELSE st

\* _validate_recurrence: the interval check
recurrence_interval(st, r) ==
    LET interval == Get(r, "interval", PyInt(1))
    IN  IF interval.k # "int" \/ interval.v < 1
        THEN [st EXCEPT !.result =
                 add_error(@, "recurrence.interval",
                           "Interval must be a positive integer", <<>>)]
        ELSE st

\* the end date check if an end date on the start date were refused
recurrence_end_date_strictly_after(st, r) ==
    LET end_date_str == Get(r, "endDate", PyNone)
        end_date == StrptimeDate(end_date_str)
        start_date == ParsedStartDate(st.d)
    IN  IF ~Truthy(end_date_str) THEN st
        ELSE IF end_date_str.k # "str" THEN Escaped(st, "TypeError")
        ELSE IF ~MatchesDatePattern(end_date_str.v)
        THEN [st EXCEPT !.result =
                 add_error(@, "recurrence.endDate",
                           "End date must be in YYYY-MM-DD format", <<>>)]
        ELSE IF ~end_date.ok
        THEN [st EXCEPT !.result =
                 add_error(@, "recurrence.endDate", "Invalid end date value", <<>>)]
        ELSE IF start_date.k = "date"
                /\ DateOrdinal(end_date.val) <= DateOrdinal(start_date)
        THEN [st EXCEPT !.result =
                 add_error(@, "recurrence.endDate",
                           "End date must be after start date", <<>>)]
        ELSE st

\* _validate_recurrence: the end date check
recurrence_end_date(st, r) ==
    LET end_date_str == Get(r, "endDate", PyNone)
        end_date == StrptimeDate(end_date_str)
        start_date == ParsedStartDate(st.d)
    IN  IF ~Truthy(end_date_str) THEN st
        ELSE IF end_date_str.k # "str" THEN Escaped(st, "TypeError")
        ELSE IF ~MatchesDatePattern(end_date_str.v)
        THEN [st EXCEPT !.result =
                 add_error(@, "recurrence.endDate",
                           "End date must be in YYYY-MM-DD format", <<>>)]
        ELSE IF ~end_date.ok
        THEN [st EXCEPT !.result =
                 add_error(@, "recurrence.endDate", "Invalid end date value", <<>>)]
        ELSE IF start_date.k = "date"
                /\ DateOrdinal(end_date.val) < DateOrdinal(start_date)
        THEN [st EXCEPT !.result =
                 add_error(@, "recurrence.endDate",
                           "End date must be after start date", <<>>)]
        ELSE st

\* the days-of-week check if it let 7 through
recurrence_days_of_week_upto_seven(st, r) ==
    LET days == Get(r, "daysOfWeek", PyNone)
    IN  IF ~Truthy(days) THEN st
        ELSE IF days.k # "list"
                \/ \E n \in 1..Len(days.v) : ~(days.v[n] >= 0 /\ days.v[n] <= 7)
        THEN [st EXCEPT !.result =
                 add_error(@, "recurrence.daysOfWeek",
                           "Days of week must be a list of integers 0-6", <<>>)]
        ELSE st

\* _validate_recurrence: the days-of-week check (the source line of the
\* add_error call is cut after 'recurrence.daysOfWe': the field name is
\* completed, the message text is not in the source). Only a list of
\* integers has kind "list": every other truthy value fails isinstance(days,
\* list) or isinstance(d, int).
recurrence_days_of_week(st, r) ==
    LET days == Get(r, "daysOfWeek", PyNone)
    IN  IF ~Truthy(days) THEN st
        ELSE IF days.k # "list"
                \/ \E n \in 1..Len(days.v) : ~(days.v[n] >= 0 /\ days.v[n] <= 6)
        THEN [st EXCEPT !.result =
                 add_error(@, "recurrence.daysOfWeek",
                           "Days of week must be a list of integers 0-6", <<>>)]
        ELSE st

\* the n-th check of _validate_recurrence on the recurrence dict r
RecurrenceCheck(n, st, r) ==
    CASE n = 1 -> recurrence_frequency(st, r)
      [] n = 2 -> recurrence_interval(st, r)
      [] n = 3 -> recurrence_end_date(st, r)
      [] n = 4 -> recurrence_days_of_week(st, r)

RECURSIVE RecurrenceChecksFrom(_, _, _)
\* the checks n..4 in order, ending at the first exception that escapes
RecurrenceChecksFrom(n, st, r) ==
    IF n > 4 \/ st.exc # "" THEN st
    ELSE RecurrenceChecksFrom(n + 1, RecurrenceCheck(n, st, r), r)

\* _validate_recurrence(event_data, result, is_new_format=True)
validate_recurrence(st) ==
    IF st.d["recurrence"].k # "dict" THEN Escaped(st, "AttributeError")
    ELSE RecurrenceChecksFrom(1, st, st.d["recurrence"].v)

\* the past check warning from the 365th day on
validate_date_not_too_far_past_from_365(st, today) ==
    LET parsed_date == ParsedStartDate(st.d)
        days_ago == DateOrdinal(today) - DateOrdinal(parsed_date)
    IN  IF parsed_date.k # "date" THEN st
        ELSE IF days_ago >= 365
        THEN [st EXCEPT !.result =
                 add_warning(@, "startDateTime",
                             "Event is {days_ago} days in the past", <<days_ago>>)]
        ELSE st

\* _validate_date_not_too_far_past(event_data, result, is_new_format=True)
validate_date_not_too_far_past(st, today) ==
    LET parsed_date == ParsedStartDate(st.d)
        days_ago == DateOrdinal(today) - DateOrdinal(parsed_date)
    IN  IF parsed_date.k # "date" THEN st
        ELSE IF days_ago > 365
        THEN [st EXCEPT !.result =
                 add_warning(@, "startDateTime",
                             "Event is {days_ago} days in the past", <<days_ago>>)]
        ELSE st

\* _validate_date_not_too_far_future(event_data, result, is_new_format=True)
\* (the source line of the add_warning call is cut after its first argument:
\* the message is written after the one of the past check)
validate_date_not_too_far_future(st, today) ==
    LET parsed_date == ParsedStartDate(st.d)
        days_ahead == DateOrdinal(parsed_date) - DateOrdinal(today)
    IN  IF parsed_date.k # "date" THEN st
        ELSE IF days_ahead > 730
        THEN [st EXCEPT !.result =
                 add_warning(@, "startDateTime",
                             "Event is {days_ahead} days in the future", <<days_ahead>>)]
        ELSE st

\* the n-th step of validate_event for an event of the new unified format
\* (one that has the key startDateTime), lines 97-130
ValidateStep(n, st, today) ==
    CASE n = 1 -> validate_required_fields(st)
      [] n = 2 -> validate_title(st)
      [] n = 3 -> validate_start_datetime(st)
      [] n = 4 -> validate_end_datetime(st)
      [] n = 5 -> validate_location(st)
      [] n = 6 -> validate_type(st)
      [] n = 7 -> IF Truthy(Get(st.d, "recurrence", PyNone))
                  THEN validate_recurrence(st) ELSE st
      [] n = 8 -> validate_date_not_too_far_past(st, today)
      [] n = 9 -> validate_date_not_too_far_future(st, today)

RECURSIVE ValidateStepsFrom(_, _, _)
\* the steps n..9 in order, ending at the first exception that escapes
ValidateStepsFrom(n, st, today) ==
    IF n > 9 \/ st.exc # "" THEN st
    ELSE ValidateStepsFrom(n + 1, ValidateStep(n, st, today), today)

\* validate_event(event_data), date.today() returning `today`: the event
\* dict as validation leaves it, the result, and the escaped exception
validate_event(d, today) ==
    ValidateStepsFrom(1, VState(d, NewValidationResult), today)

\* --- deduplication (remove_duplicates, find_duplicates)
\* event.get('title', '').lower().strip(): only a dict has get(), only a
\* str has lower()
SignatureTitle(e) ==
    LET title == Get(e.d, "title", PyStr(<<>>))
    IN  IF e.model \/ title.k # "str" THEN Raise("AttributeError")
        ELSE Ok(PyStr(Strip(StrLower(title.v))))

\* event.get(key): None when the key is missing
GetOrNone(e, key) == Get(e.d, key, PyNone)

\* the signature remove_duplicates gives an event, lines 394-409
NewOrOldSignature(e) ==
    IF HasKey(e.d, "startDateTime")
    THEN <<SignatureTitle(e).val, GetOrNone(e, "startDateTime"),
           GetOrNone(e, "endDateTime"), GetOrNone(e, "type")>>
    ELSE <<SignatureTitle(e).val, GetOrNone(e, "date"),
           GetOrNone(e, "time"), GetOrNone(e, "type")>>

\* the signature find_duplicates gives an event, lines 423-428
OldSignature(e) ==
    <<SignatureTitle(e).val, GetOrNone(e, "date"),
      GetOrNone(e, "time"), GetOrNone(e, "type")>>

RECURSIVE RemoveLoop_newest_first(_, _, _, _)
\* the loop of remove_duplicates if it put each new event in front
RemoveLoop_newest_first(evs, n, seen, unique) ==
    IF n > Len(evs) THEN unique
    ELSE LET signature == NewOrOldSignature(evs[n])
         IN  IF signature \notin seen
             THEN RemoveLoop_newest_first(evs, n + 1, seen \cup {signature},
                                          <<evs[n]>> \o unique)
             ELSE RemoveLoop_newest_first(evs, n + 1, seen, unique)

RECURSIVE RemoveLoop(_, _, _, _)
\* the loop of remove_duplicates, lines 392-413, from the n-th event on
RemoveLoop(evs, n, seen, unique) ==
    IF n > Len(evs) THEN unique
    ELSE LET signature == NewOrOldSignature(evs[n])
         IN  IF signature \notin seen
             THEN RemoveLoop(evs, n + 1, seen \cup {signature},
                             Append(unique, evs[n]))
             ELSE RemoveLoop(evs, n + 1, seen, unique)

\* remove_duplicates(events), every event being a dict with a str title
RemoveDuplicates(evs) == RemoveLoop(evs, 1, {}, <<>>)

RECURSIVE FindLoop(_, _, _, _, _)
\* the loop of find_duplicates, lines 421-434, from the n-th event on
FindLoop(evs, n, seen, unique, dups) ==
    IF n > Len(evs) THEN [unique_events |-> unique, duplicates |-> dups]
    ELSE LET signature == OldSignature(evs[n])
         IN  IF signature \in seen
             THEN FindLoop(evs, n + 1, seen, unique, Append(dups, evs[n]))
             ELSE FindLoop(evs, n + 1, seen \cup {signature},
                           Append(unique, evs[n]), dups)

\* find_duplicates(events), every event being a dict with a str title
FindDuplicates(evs) == FindLoop(evs, 1, {}, <<>>, <<>>)

\* --- the strings the inputs are built from
T_CS301_Lecture == <<"C","S","3","0","1"," ","L","e","c","t","u","r","e">>

T_Midterm == <<"M","i","d","t","e","r","m">>

L_Room_101 == <<"R","o","o","m"," ","1","0","1">>

D_Chapters == <<"C","h","a","p","t","e","r","s"," ","1","-","3">>

Id_evt_1 == <<"e","v","t","-","1">>

S_quiz == <<"q","u","i","z">>

S_WEEKLY_upper == <<"W","E","E","K","L","Y">>

S_not_a_date == <<"n","o","t","-","a","-","d","a","t","e">>

Naive(y, mo, d, h, mi) ==
    [y |-> y, mo |-> mo, d |-> d, h |-> h, mi |-> mi, s |-> 0, tz |-> NaiveTz]

\* "2026-01-20T14:00:00" and "2026-01-20T15:20:00"
StartA == PyStr(IsoFormat(Naive(2026, 1, 20, 14, 0)))

EndA == PyStr(IsoFormat(Naive(2026, 1, 20, 15, 20)))

\* "2026-04-30"
EndDateA == PyStr(IsoDate(2026, 4, 30))

Required ==
    [title |-> PyStr(T_Midterm), startDateTime |-> StartA,
     endDateTime |-> EndA, location |-> PyStr(L_Room_101)]

\* f with the fields of g added or replaced
With(f, g) == g @@ f

\* the weekly lecture of the specification's example
ExampleFields ==
    [title |-> PyStr(T_CS301_Lecture), startDateTime |-> StartA,
     endDateTime |-> EndA, location |-> PyStr(L_Room_101),
     type |-> PyStr(S_lecture),
     recurrence |-> RecurrenceDict([frequency |-> PyStr(S_weekly),
                                    daysOfWeek |-> PyList(<<1, 3>>),
                                    endDate |-> EndDateA])]

ExampleEvent == EventDict(ExampleFields)

\* one-time events of every type, known, unknown, None and missing
TypeEvents ==
    {EventDict(With(Required, [type |-> t])) :
        t \in {PyStr(S_lecture), PyStr(S_exam), PyStr(S_assignment),
               PyStr(S_project), PyStr(S_office_hours), PyStr(S_other),
               PyStr(S_quiz), PyNone}}
    \cup {EventDict(Required)}

\* events whose id is None, empty or set (TypeEvents have no id key)
IdEvents ==
    {EventDict(With(Required, [type |-> PyStr(S_exam), id |-> x])) :
        x \in {PyNone, PyStr(<<>>), PyStr(Id_evt_1)}}

\* events with malformed, equal, reversed or zone-aware timestamps, the last
\* with a zone-aware start and a naive end one day before it
TimeEvents ==
    {EventDict(With(Required, [type |-> PyStr(S_exam), id |-> PyStr(Id_evt_1),
                               startDateTime |-> t[1], endDateTime |-> t[2]])) :
        t \in {<<PyStr(S_not_a_date), EndA>>,
               <<PyStr(IsoFormat(Naive(2026, 13, 20, 14, 0))), EndA>>,
               <<StartA, PyStr(S_not_a_date)>>,
               <<StartA, StartA>>,
               <<EndA, StartA>>,
               <<PyStr(StartA.v \o <<"+","0","0",":","0","0">>),
                 PyStr(EndA.v \o <<"+","0","0",":","0","0">>)>>,
               <<PyStr(StartA.v \o <<"+","0","0",":","0","0">>),
                 PyStr(IsoFormat(Naive(2026, 1, 19, 15, 20)))>>}}

\* events with a missing or empty required field, or with a description
\* (one of them a core event with a description added), or of the old format
FieldEvents ==
    {EventDict([startDateTime |-> StartA, endDateTime |-> EndA,
                location |-> PyStr(L_Room_101)]),
     EventDict([title |-> PyStr(T_Midterm), startDateTime |-> StartA,
                endDateTime |-> EndA]),
     EventDict([title |-> PyStr(T_Midterm), startDateTime |-> StartA,
                location |-> PyStr(L_Room_101)]),
     EventDict(With(Required, [startDateTime |-> PyStr(<<>>)])),
     EventDict(With(Required, [endDateTime |-> PyNone])),
     EventDict(With(Required, [location |-> PyStr(<<>>)])),
     EventDict(With(Required, [title |-> PyStr(<<>>), type |-> PyStr(S_exam)])),
     EventDict(With(Required, [description |-> PyStr(D_Chapters)])),
     EventDict(With(Required, [type |-> PyStr(S_exam), id |-> PyStr(Id_evt_1),
                               description |-> PyStr(D_Chapters)])),
     EventDict([title |-> PyStr(T_Midterm), type |-> PyStr(S_exam),
                date |-> PyStr(IsoDate(2026, 1, 20)),
                time |-> PyStr(<<"1", "4", ":", "0", "0">>)])}

Recurrences ==
    {RecurrenceDict(<<>>),
     RecurrenceDict([frequency |-> PyStr(S_weekly), endDate |-> EndDateA,
                     count |-> PyInt(10)]),
     RecurrenceDict([frequency |-> PyStr(S_daily), count |-> PyInt(10)]),
     RecurrenceDict([frequency |-> PyStr(S_weekly), daysOfWeek |-> PyList(<<0 - 1>>)]),
     RecurrenceDict([frequency |-> PyStr(S_weekly), daysOfWeek |-> PyList(<<6, 7>>)]),
     RecurrenceDict([frequency |-> PyStr(S_weekly), daysOfWeek |-> PyList(<<>>)]),
     RecurrenceDict([frequency |-> PyStr(S_monthly), interval |-> PyInt(2)]),
     RecurrenceDict([frequency |-> PyStr(S_weekly), interval |-> PyInt(0),
                     daysOfWeek |-> PyList(<<5, 0, 6>>)]),
     RecurrenceDict([frequency |-> PyStr(S_weekly), endDate |-> PyStr(S_not_a_date)]),
     RecurrenceDict([frequency |-> PyStr(S_WEEKLY_upper), endDate |-> PyStr(<<>>),
                     count |-> PyInt(3)]),
     RecurrenceDict([frequency |-> PyNone]),
     RecurrenceDict([frequency |-> PyStr(S_weekly),
                     endDate |-> PyStr(IsoDate(2026, 1, 20))]),
     RecurrenceDict([frequency |-> PyStr(S_weekly),
                     endDate |-> PyStr(IsoDate(2026, 2, 30))]),
     RecurrenceDict([frequency |-> PyStr(S_weekly),
                     daysOfWeek |-> PyStrList(<<"MO", "WE">>)]),
     RecurrenceDict([frequency |-> PyStr(S_weekly),
                     daysOfWeek |-> PyStr(<<"M", "O">>)]),
     RecurrenceDict([frequency |-> PyStr(S_weekly), daysOfWeek |-> PyInt(0)]),
     RecurrenceDict([frequency |-> PyStr(S_weekly), daysOfWeek |-> PyInt(3)]),
     RecurrenceDict([frequency |-> PyStr(S_quiz), daysOfWeek |-> PyList(<<2, 4>>),
                     endDate |-> PyStr(IsoDate(2026, 1, 19))])}

RecurringEvents ==
    {EventDict(With(Required, [type |-> PyStr(S_lecture), recurrence |-> r])) :
        r \in Recurrences}
    \cup {EventDict(With(Required, [type |-> PyStr(S_lecture), recurrence |-> PyNone]))}

\* a title of n characters
TitleOfLength(n) == [i \in 1..n |-> "x"]

\* events whose title is blank, short, at a limit of the length check, or
\* beyond it
TitleEvents ==
    {EventDict(With(Required, [type |-> PyStr(S_exam), title |-> PyStr(t)])) :
        t \in {<<" ", " ", " ", " ">>, <<"a", "b">>, <<" ", "a", "b", " ", " ">>,
               <<"a", "b", "c">>, <<" ", "M", "I", "D", "T", "E", "R", "M", " ">>,
               TitleOfLength(200), TitleOfLength(201),
               <<" ">> \o TitleOfLength(2) \o [i \in 1..200 |-> " "]}}
    \cup {EventDict(With(Required, [type |-> PyStr(S_exam), title |-> PyInt(301)]))}

\* events built through the CalendarEvent model
ModelEvents ==
    {CalendarEvent(With(ExampleFields,
        [recurrence |-> RecurrenceRule([frequency |-> PyStr(S_weekly),
                                        daysOfWeek |-> PyList(<<1, 3>>),
                                        endDate |-> EndDateA])])),
     CalendarEvent(With(Required, [type |-> PyStr(S_exam), id |-> PyStr(Id_evt_1)]))}

\* events that start 365 and 366 days before, and 730 and 731 days after,
\* 2026-01-10, the first of the days validation runs on
SanityEvents ==
    {EventDict(With(Required,
        [type |-> PyStr(S_exam), id |-> PyStr(Id_evt_1),
         startDateTime |-> PyStr(IsoFormat(Naive(day[1], 1, day[2], 14, 0))),
         endDateTime |-> PyStr(IsoFormat(Naive(day[1], 1, day[2], 15, 20)))])) :
        day \in {<<2025, 10>>, <<2025, 9>>, <<2028, 10>>, <<2028, 11>>}}

InputEvents ==
    {ExampleEvent} \cup TypeEvents \cup IdEvents \cup TimeEvents
    \cup FieldEvents \cup RecurringEvents \cup ModelEvents \cup TitleEvents
    \cup SanityEvents

\* the events every batch is filled up with: a valid one-time exam and the
\* same with a malformed start
CoreEvents ==
    {EventDict(With(Required, [type |-> PyStr(S_exam), id |-> PyStr(Id_evt_1)])),
     EventDict(With(Required, [type |-> PyStr(S_exam), id |-> PyStr(Id_evt_1),
                               startDateTime |-> PyStr(S_not_a_date)]))}

\* the longest batch given to the validator and to generate_ics
MaxBatch == 2

\* the batches: any length up to MaxBatch, any input event at one position,
\* core events at the others
Batches ==
    UNION {[1..n -> CoreEvents] \cup
           {[b EXCEPT ![p] = e] :
               b \in [1..n -> CoreEvents], p \in 1..n, e \in InputEvents} :
           n \in 0..MaxBatch}

\* the dates date.today() returns: before the events, and more than a year
\* after them
Todays == {[k |-> "date", y |-> 2026, mo |-> 1, d |-> 10],
           [k |-> "date", y |-> 2027, mo |-> 6, d |-> 1]}

\* str(uuid.uuid4()): two of the identifiers it can return
UuidPool == {<<"u","u","i","d","4","-","a">>, <<"u","u","i","d","4","-","b">>}

DefaultCalendarName ==
    <<"C","o","u","r","s","e"," ","C","a","l","e","n","d","a","r">>

\* --- sessions and courses (services/event_storage.py)
\* f"session-{uuid.uuid4().hex[:12]}": two of the ids it can return
SessionIds == {"session-0a1b2c3d4e5f", "session-f5e4d3c2b1a0"}

FileIds == {"file-1", "file-2"}

\* a session id as a value of the file map (a missing key reads as Absent)
SessionRef(session_id) == [k |-> "session_id", v |-> session_id]

\* the event ids given to update_event and delete_event: the second event of
\* the first course, and an id no event has
EventIdArgs == {PyStr(<<"e", "2">>), PyStr(<<"e", "9">>)}

\* the course codes given to delete_course
CourseCodes == {"CS301", "PHYS101"}

\* the event given to update_event: other fields, and an id of its own
UpdatedEvents ==
    {CalendarEvent(With(Required, [type |-> PyStr(S_quiz),
                                   id |-> PyStr(<<"n", "e", "w">>)]))}

\* a stored event: a CalendarEvent with an id
StoredEvent(id) ==
    CalendarEvent(With(Required, [type |-> PyStr(S_exam), id |-> PyStr(id)]))

\* CourseCalendar(course_code=..., events=[...])
CourseCalendar(course_code, course_events) ==
    [course_code |-> course_code, events |-> course_events]

\* the courses given to add_course_to_session: of 3, of 2 and of no events
Courses ==
    {CourseCalendar("CS301", <<StoredEvent(<<"e", "1">>), StoredEvent(<<"e", "2">>),
                               StoredEvent(<<"e", "3">>)>>),
     CourseCalendar("MATH205", <<StoredEvent(<<"e", "4">>),
                                 StoredEvent(<<"e", "5">>)>>),
     CourseCalendar("PHYS101", <<>>)}

\* MultiCourseCalendar(courses=[...])
MultiCourseCalendar(courses) == [k |-> "MultiCourseCalendar", courses |-> courses]

\* MultiCourseCalendar.add_course(course): the course goes to the end
add_course(multi_course, course) ==
    [multi_course EXCEPT !.courses = Append(@, course)]

RECURSIVE EventsOfCourses(_)
\* the events of the courses, course after course
EventsOfCourses(courses) ==
    IF courses = <<>> THEN <<>>
    ELSE Head(courses).events \o EventsOfCourses(Tail(courses))

\* MultiCourseCalendar.get_all_events()
get_all_events(multi_course) == EventsOfCourses(multi_course.courses)

\* the most courses one session is given
MaxCourses == 2

\* ------------------------------------------------------------------------
\* State
\* ------------------------------------------------------------------------
VARIABLES
    events,         \* the batch of events handed to the validator / compiler
    calendar_name,  \* generate_ics's calendar_name argument
    pc,             \* position in generate_ics: start, loop, done, raised
    idx,            \* the loop's position in events
    cal,            \* the Calendar being built
    log,            \* the titles printed by the except handler
    document,       \* the returned text, as content lines
    vpc,            \* validate_events: idle, done, raised
    results,        \* the list validate_events returned
    vr,             \* a ValidationResult under add_error / add_warning
    dpc,            \* deduplication: idle, removed, found, raised
    dedup_calls,    \* how many times remove_duplicates has returned
    dedup_in,       \* the list the last deduplication call was given
    unique_events,  \* the unique events it returned
    duplicates,     \* the duplicates find_duplicates returned
    sessions,       \* EventStorage._sessions: session id -> MultiCourseCalendar
    file_to_session,\* EventStorage._file_to_session: file id -> session id
    added,          \* per session, the courses added to it so far, in order
    added_with,     \* per file id, the course last added together with it
    store_call,     \* the last EventStorage call: its name and session id
    store_ret,      \* what that call returned
    date_today,     \* what date.today() returned to the last validation
    run,            \* which call of generate_ics on this batch is under way
    first_document, \* the document the first call returned
    compat_in,      \* the text given to validate_compatibility
    compat,         \* the dict validate_compatibility returned
    mpc,            \* generate_multi_course_ics: its position (idle, compiling,
                    \* returned, raised) and its session_id argument
    files           \* data/calendars/multi_course_{session_id}.ics, per session id

icsVars == <<events, calendar_name, pc, idx, cal, log, document>>

valVars == <<vpc, results, date_today>>

vrVars == <<vr>>

dedupVars == <<dpc, dedup_calls, dedup_in, unique_events, duplicates>>

storeVars == <<sessions, file_to_session, added, added_with, store_call, store_ret>>

runVars == <<run, first_document>>

compatVars == <<compat_in, compat>>

exportVars == <<mpc, files>>

serviceVars == <<runVars, compatVars, exportVars>>

vars == <<icsVars, valVars, vrVars, dedupVars, storeVars, serviceVars>>

NoCalendar ==
    [prodid |-> "", version |-> "", calname |-> <<>>, timezone |-> "",
     components |-> <<>>]

InitBatch(batch) ==
    /\ events = batch
    /\ calendar_name = DefaultCalendarName
    /\ pc = "start"
    /\ idx = 0
    /\ cal = NoCalendar
    /\ log = <<>>
    /\ document = <<>>
    /\ vpc = "idle"
    /\ results = <<>>
    /\ dpc = "idle"
    /\ dedup_calls = 0
    /\ dedup_in = <<>>
    /\ unique_events = <<>>
    /\ duplicates = <<>>
    /\ sessions = [sid \in SessionIds |-> Absent]
    /\ file_to_session = [fid \in FileIds |-> Absent]
    /\ added = [sid \in SessionIds |-> <<>>]
    /\ added_with = [fid \in FileIds |-> Absent]
    /\ store_call = [op |-> "__init__", session_id |-> ""]
    /\ store_ret = PyNone
    /\ date_today = PyNone
    /\ run = 1
    /\ first_document = <<>>
    /\ compat_in = <<>>
    /\ compat = PyNone
    /\ mpc = [pc |-> "idle", session_id |-> ""]
    /\ files = [session_id \in SessionIds |-> Absent]

Init ==
    /\ \E batch \in Batches : InitBatch(batch)
    /\ vr = NewValidationResult

\* the validations of events[1..n], each starting from the event as given
Validated(today) == [n \in 1..Len(events) |-> validate_event(events[n].d, today)]

\* validate_events(events): validate_event on every event, in order; an
\* exception escaping validate_event ends the call, the writes made to the
\* event dictionaries so far staying
validate_events ==
    /\ pc = "start"
    /\ vpc = "idle"
    /\ \A n \in 1..Len(events) :
          ~events[n].model /\ HasKey(events[n].d, "startDateTime")
    /\ \E today \in Todays :
        LET v == Validated(today)
            failed == {n \in 1..Len(events) : v[n].exc # ""}
            stop == IF failed = {} THEN Len(events)
                    ELSE CHOOSE n \in failed : \A m \in failed : n <= m
        IN  /\ events' = [n \in 1..Len(events) |->
                            IF n <= stop THEN [events[n] EXCEPT !.d = v[n].d]
                            ELSE events[n]]
            /\ results' = IF failed = {} THEN [n \in 1..Len(events) |-> v[n].result]
                          ELSE <<>>
            /\ vpc' = IF failed = {} THEN "done" ELSE "raised"
            /\ date_today' = today
    /\ UNCHANGED <<calendar_name, pc, idx, cal, log, document>>
    /\ UNCHANGED <<vrVars, dedupVars, storeVars, serviceVars>>

\* generate_ics without the empty-list check: an empty calendar is returned
generate_ics_reject_returns_empty ==
    /\ pc = "start"
    /\ events = <<>>
    /\ document' = ToIcal(NoCalendar)
    /\ pc' = "done"
    /\ UNCHANGED <<events, calendar_name, idx, cal, log>>
    /\ UNCHANGED <<valVars, vrVars, dedupVars, storeVars, serviceVars>>

\* generate_ics, lines 48-49: an empty list is rejected
generate_ics_reject ==
    /\ pc = "start"
    /\ events = <<>>
    /\ pc' = "raised"
    /\ UNCHANGED <<events, calendar_name, idx, cal, log, document>>
    /\ UNCHANGED <<valVars, vrVars, dedupVars, storeVars, serviceVars>>

\* generate_ics, lines 51-56: the calendar and its document-level properties
generate_ics_begin ==
    /\ pc = "start"
    /\ events # <<>>
    /\ cal' = [prodid |-> "-//Course Outline to Calendar//EN",
               version |-> "2.0",
               calname |-> calendar_name,
               timezone |-> default_timezone.name,
               components |-> <<>>]
    /\ idx' = 1
    /\ pc' = "loop"
    /\ UNCHANGED <<events, calendar_name, log, document>>
    /\ UNCHANGED <<valVars, vrVars, dedupVars, storeVars, serviceVars>>

\* the title the except handler prints
FailedTitle(event_data) ==
    IF event_data.model THEN event_data.d["title"]
    ELSE Get(event_data.d, "title", PyStr(S_Unknown))

\* the loop body giving every component a fresh identifier
generate_ics_add_fresh_uid ==
    /\ pc = "loop"
    /\ idx <= Len(events)
    /\ \E uid \in UuidPool :
        LET r == create_event(model_dump(events[idx]), uid)
        IN  /\ r.ok
            /\ cal' = [cal EXCEPT !.components =
                                    Append(@, [r.val EXCEPT !.uid = PyStr(uid)])]
    /\ idx' = idx + 1
    /\ UNCHANGED <<events, calendar_name, pc, log, document>>
    /\ UNCHANGED <<valVars, vrVars, dedupVars, storeVars, serviceVars>>

\* the iteration if it wrote the UID it used back into the event
generate_ics_add_stores_uid ==
    /\ pc = "loop"
    /\ idx <= Len(events)
    /\ \E uid \in UuidPool :
        LET r == create_event(model_dump(events[idx]), uid)
        IN  /\ r.ok
            /\ cal' = [cal EXCEPT !.components = Append(@, r.val)]
            /\ events' = [events EXCEPT ![idx].d["id"] = r.val.uid]
    /\ idx' = idx + 1
    /\ UNCHANGED <<calendar_name, pc, log, document>>
    /\ UNCHANGED <<valVars, vrVars, dedupVars, storeVars, serviceVars>>

\* one iteration of the loop, lines 59-68: the event is encoded and added
generate_ics_add ==
    /\ pc = "loop"
    /\ idx <= Len(events)
    /\ \E uid \in UuidPool :
        LET r == create_event(model_dump(events[idx]), uid)
        IN  /\ r.ok
            /\ cal' = [cal EXCEPT !.components = Append(@, r.val)]
    /\ idx' = idx + 1
    /\ UNCHANGED <<events, calendar_name, pc, log, document>>
    /\ UNCHANGED <<valVars, vrVars, dedupVars, storeVars, serviceVars>>

\* the loop without its try/except: the exception ends generate_ics
generate_ics_skip_aborts ==
    /\ pc = "loop"
    /\ idx <= Len(events)
    /\ \A uid \in UuidPool : ~create_event(model_dump(events[idx]), uid).ok
    /\ pc' = "raised"
    /\ UNCHANGED <<events, calendar_name, idx, cal, log, document>>
    /\ UNCHANGED <<valVars, vrVars, dedupVars, storeVars, serviceVars>>

\* one iteration of the loop, lines 69-72: encoding raised, the event is
\* logged and skipped
generate_ics_skip ==
    /\ pc = "loop"
    /\ idx <= Len(events)
    /\ \A uid \in UuidPool : ~create_event(model_dump(events[idx]), uid).ok
    /\ log' = Append(log, FailedTitle(events[idx]))
    /\ idx' = idx + 1
    /\ UNCHANGED <<events, calendar_name, pc, cal, document>>
    /\ UNCHANGED <<valVars, vrVars, dedupVars, storeVars, serviceVars>>

\* line 74: the calendar is serialized and returned
generate_ics_return ==
    /\ pc = "loop"
    /\ idx > Len(events)
    /\ document' = ToIcal(cal)
    /\ pc' = "done"
    /\ UNCHANGED <<events, calendar_name, idx, cal, log>>
    /\ UNCHANGED <<valVars, vrVars, dedupVars, storeVars, serviceVars>>

Next ==
    \/ validate_events
    \/ generate_ics_reject
    \/ generate_ics_begin
    \/ generate_ics_add
    \/ generate_ics_skip
    \/ generate_ics_return

Spec == Init /\ [][Next]_vars

\* --- generate_ics called twice on the same arguments
\* a second call generate_ics(events, calendar_name) on the same generator
\* once the first has returned: the first document is kept by the caller and
\* the call starts from its own locals
generate_ics_again ==
    /\ pc = "done"
    /\ run = 1
    /\ first_document' = document
    /\ run' = 2
    /\ pc' = "start"
    /\ idx' = 0
    /\ cal' = NoCalendar
    /\ log' = <<>>
    /\ document' = <<>>
    /\ UNCHANGED <<events, calendar_name>>
    /\ UNCHANGED <<valVars, vrVars, dedupVars, storeVars, compatVars, exportVars>>

NextRuns ==
    \/ generate_ics_reject
    \/ generate_ics_begin
    \/ generate_ics_add
    \/ generate_ics_skip
    \/ generate_ics_return
    \/ generate_ics_again

SpecRuns == Init /\ [][NextRuns]_vars

\* --- validate_compatibility (services/ics_generator.py)
\* `marker in ics_content` for a marker that is a whole content line
HasLine(ics_content, name, value) ==
    \E i \in 1..Len(ics_content) :
        ics_content[i].name = name /\ ics_content[i].value = value

\* `'PRODID' in ics_content`
HasProperty(ics_content, name) ==
    \E i \in 1..Len(ics_content) : ics_content[i].name = name

\* Calendar.from_ical over lines i.. of the text: BEGIN opens a component, END
\* closes the innermost one, any other line belongs to the open component;
\* exactly one outermost component must result
RECURSIVE FromIcalFrom(_, _, _, _)
FromIcalFrom(ics_content, i, depth, comps) ==
    IF i > Len(ics_content)
    THEN IF comps = 1 THEN Ok(comps) ELSE Raise("ValueError")
    ELSE IF ics_content[i].name = "BEGIN"
    THEN FromIcalFrom(ics_content, i + 1, depth + 1, comps)
    ELSE IF depth = 0 THEN Raise("IndexError")
    ELSE IF ics_content[i].name = "END"
    THEN FromIcalFrom(ics_content, i + 1, depth - 1,
                      IF depth = 1 THEN comps + 1 ELSE comps)
    ELSE FromIcalFrom(ics_content, i + 1, depth, comps)

from_ical(ics_content) == FromIcalFrom(ics_content, 1, 0, 0)

\* the results dict as constructed
NewCompatibility == [is_valid |-> TRUE, errors |-> <<>>, warnings |-> <<>>]

\* the try block after a successful parse, one `if` after the other
CompatibilityChecks(ics_content) ==
    LET r1 == IF HasLine(ics_content, "BEGIN", "VCALENDAR") THEN NewCompatibility
              ELSE [NewCompatibility EXCEPT
                        !.errors = Append(@, "Missing VCALENDAR component"),
                        !.is_valid = FALSE]
        r2 == IF HasLine(ics_content, "VERSION", "2.0") THEN r1
              ELSE [r1 EXCEPT
                        !.errors = Append(@, "Missing or incorrect VERSION"),
                        !.is_valid = FALSE]
    IN  IF HasProperty(ics_content, "PRODID") THEN r2
        ELSE [r2 EXCEPT !.warnings = Append(@, "Missing PRODID (recommended)")]

\* the check with a missing PRODID counted as an error
compatibility_requires_prodid(ics_content) ==
    LET r == CompatibilityChecks(ics_content)
    IN  IF ~from_ical(ics_content).ok
        THEN [NewCompatibility EXCEPT !.is_valid = FALSE,
                                      !.errors = Append(@, "Parse error")]
        ELSE IF HasProperty(ics_content, "PRODID") THEN r
        ELSE [r EXCEPT !.is_valid = FALSE,
                       !.errors = Append(@, "Missing PRODID")]

\* validate_compatibility(ics_content), lines 243-270: what it returns
compatibility(ics_content) ==
    IF ~from_ical(ics_content).ok
    THEN [NewCompatibility EXCEPT !.is_valid = FALSE,
                                  !.errors = Append(@, "Parse error")]
    ELSE CompatibilityChecks(ics_content)

\* the text without its lines of one property
WithoutProperty(ics_content, name) ==
    LET Keep(l) == l.name # name
    IN  SelectSeq(ics_content, Keep)

\* the text with its VERSION lines saying 1.0
WithVersion1(ics_content) ==
    [i \in 1..Len(ics_content) |->
        IF ics_content[i].name = "VERSION" THEN Line("VERSION", "1.0")
        ELSE ics_content[i]]

\* the components of the text without the calendar that wraps them
Unwrapped(ics_content) ==
    LET Keep(l) ==
            /\ l.name \notin {"PRODID", "VERSION", "X-WR-CALNAME", "X-WR-TIMEZONE"}
            /\ ~(l.name \in {"BEGIN", "END"} /\ l.value = "VCALENDAR")
    IN  SelectSeq(ics_content, Keep)

\* texts a caller can pass: a generated document as it is, with a property
\* removed or changed, unwrapped, cut short, and the empty text
CompatTexts(doc) ==
    {doc,
     WithoutProperty(doc, "PRODID"),
     WithoutProperty(doc, "VERSION"),
     WithVersion1(doc),
     Unwrapped(doc),
     SubSeq(doc, 1, Len(doc) - 1),
     <<>>}

\* validate_compatibility called once on a text derived from the document
\* generate_ics returned
validate_compatibility ==
    /\ pc = "done"
    /\ compat = PyNone
    /\ \E ics_content \in CompatTexts(document) :
        /\ compat_in' = ics_content
        /\ compat' = compatibility(ics_content)
    /\ UNCHANGED <<icsVars, valVars, vrVars, dedupVars, storeVars, runVars, exportVars>>

NextCompat ==
    \/ generate_ics_reject
    \/ generate_ics_begin
    \/ generate_ics_add
    \/ generate_ics_skip
    \/ generate_ics_return
    \/ validate_compatibility

SpecCompat == Init /\ [][NextCompat]_vars

\* --- deduplication on its own
\* the most calls of remove_duplicates in a row, each on the last one's output
MaxDedupCalls == 2

TitlesLowerable(evs) == \A n \in 1..Len(evs) : SignatureTitle(evs[n]).ok

\* remove_duplicates(events), first on the batch, then on its own output;
\* an event that is no dict, or whose title is no str, makes it raise
remove_duplicates ==
    /\ dpc \in {"idle", "removed"}
    /\ dedup_calls < MaxDedupCalls
    /\ LET input == IF dpc = "idle" THEN events ELSE unique_events
       IN  /\ dedup_in' = input
           /\ IF TitlesLowerable(input)
              THEN /\ unique_events' = RemoveDuplicates(input)
                   /\ dedup_calls' = dedup_calls + 1
                   /\ dpc' = "removed"
              ELSE /\ dpc' = "raised"
                   /\ UNCHANGED <<unique_events, dedup_calls>>
    /\ UNCHANGED duplicates
    /\ UNCHANGED <<icsVars, valVars, vrVars, storeVars, serviceVars>>

\* find_duplicates(events) on the batch
find_duplicates ==
    /\ dpc = "idle"
    /\ dedup_in' = events
    /\ IF TitlesLowerable(events)
       THEN /\ unique_events' = FindDuplicates(events).unique_events
            /\ duplicates' = FindDuplicates(events).duplicates
            /\ dpc' = "found"
       ELSE /\ dpc' = "raised"
            /\ UNCHANGED <<unique_events, duplicates>>
    /\ UNCHANGED dedup_calls
    /\ UNCHANGED <<icsVars, valVars, vrVars, storeVars, serviceVars>>

NextDedup ==
    \/ remove_duplicates
    \/ find_duplicates

SpecDedup == Init /\ [][NextDedup]_vars

\* --- EventStorage on its own
InitStorage ==
    /\ InitBatch(<<>>)
    /\ vr = NewValidationResult

StoreCall(op, session_id) == [op |-> op, session_id |-> session_id]

\* create_session(): a session id not in use gets an empty calendar
create_session ==
    /\ \E session_id \in SessionIds :
          /\ sessions[session_id] = Absent
          /\ sessions' = [sessions EXCEPT ![session_id] = MultiCourseCalendar(<<>>)]
          /\ store_call' = StoreCall("create_session", session_id)
          /\ store_ret' = session_id
    /\ UNCHANGED <<file_to_session, added, added_with>>
    /\ UNCHANGED <<icsVars, valVars, vrVars, dedupVars, serviceVars>>

\* add_course_to_session(session_id, file_id, course)
add_course_to_session(session_id, file_id, course) ==
    /\ store_call' = StoreCall("add_course_to_session", session_id)
    /\ IF sessions[session_id] = Absent
       THEN /\ store_ret' = FALSE
            /\ UNCHANGED <<sessions, file_to_session, added, added_with>>
       ELSE /\ Len(added[session_id]) < MaxCourses
            /\ file_to_session' = [file_to_session EXCEPT ![file_id] = SessionRef(session_id)]
            /\ sessions' = [sessions EXCEPT ![session_id] = add_course(@, course)]
            /\ added' = [added EXCEPT ![session_id] = Append(@, course)]
            /\ added_with' = [added_with EXCEPT ![file_id] = course]
            /\ store_ret' = TRUE
    /\ UNCHANGED <<icsVars, valVars, vrVars, dedupVars, serviceVars>>

\* get_all_events_in_session if the session test were the wrong way round
get_all_events_in_session_known_empty(session_id) ==
    /\ store_call' = StoreCall("get_all_events_in_session", session_id)
    /\ store_ret' = IF sessions[session_id] # Absent THEN <<>>
                    ELSE get_all_events(MultiCourseCalendar(<<>>))
    /\ UNCHANGED <<sessions, file_to_session, added, added_with>>
    /\ UNCHANGED <<icsVars, valVars, vrVars, dedupVars, serviceVars>>

\* get_all_events_in_session(session_id)
get_all_events_in_session(session_id) ==
    /\ store_call' = StoreCall("get_all_events_in_session", session_id)
    /\ store_ret' = IF sessions[session_id] = Absent THEN <<>>
                    ELSE get_all_events(sessions[session_id])
    /\ UNCHANGED <<sessions, file_to_session, added, added_with>>
    /\ UNCHANGED <<icsVars, valVars, vrVars, dedupVars, serviceVars>>

\* the first course that has events, None if there is none
FirstCourseWithEvents(courses) ==
    LET with_events == {i \in 1..Len(courses) : courses[i].events # <<>>}
    IN  IF with_events = {} THEN PyNone
        ELSE courses[CHOOSE i \in with_events : \A j \in with_events : i <= j]

\* get_course_by_file_id(file_id)
get_course_by_file_id(file_id) ==
    /\ store_call' = [op |-> "get_course_by_file_id", file_id |-> file_id]
    /\ store_ret' =
          IF file_to_session[file_id] = Absent THEN PyNone
          ELSE IF sessions[file_to_session[file_id].v] = Absent THEN PyNone
          ELSE FirstCourseWithEvents(sessions[file_to_session[file_id].v].courses)
    /\ UNCHANGED <<sessions, file_to_session, added, added_with>>
    /\ UNCHANGED <<icsVars, valVars, vrVars, dedupVars, serviceVars>>

NextStorage ==
    \/ create_session
    \/ \E session_id \in SessionIds, course \in Courses :
          add_course_to_session(session_id, "file-1", course)
    \/ \E session_id \in SessionIds : get_all_events_in_session(session_id)

SpecStorage == InitStorage /\ [][NextStorage]_vars

\* uploads of several files, each with a course of its own, and the lookup
\* of a course by its file
FileCourses == {c \in Courses : c.course_code \in {"CS301", "PHYS101"}}

NextFiles ==
    \/ create_session
    \/ \E session_id \in SessionIds, file_id \in FileIds, course \in FileCourses :
          add_course_to_session(session_id, file_id, course)
    \/ \E file_id \in FileIds : get_course_by_file_id(file_id)

SpecFiles == InitStorage /\ [][NextFiles]_vars

\* --- EventStorage: the operations that change or remove what is stored
StoreCallWith(op, session_id, arg) ==
    [op |-> op, session_id |-> session_id, arg |-> arg]

\* the places <<i, j>> of the events with this id: course i, event j
PlacesOf(courses, event_id) ==
    {<<i, j>> \in (1..Len(courses)) \X (1..3) :
        j <= Len(courses[i].events) /\ courses[i].events[j].d["id"] = event_id}

\* the place the two loops of update_event reach first
FirstPlace(places) ==
    CHOOSE p \in places :
        \A q \in places : p[1] < q[1] \/ (p[1] = q[1] /\ p[2] <= q[2])

\* update_event storing the event as given, its own id included
update_event_keeps_given_id(session_id, event_id, updated_event) ==
    /\ store_call' = StoreCallWith("update_event", session_id,
                                   [event_id |-> event_id, updated_event |-> updated_event])
    /\ IF sessions[session_id] = Absent
          \/ PlacesOf(sessions[session_id].courses, event_id) = {}
       THEN /\ store_ret' = FALSE
            /\ UNCHANGED sessions
       ELSE LET p == FirstPlace(PlacesOf(sessions[session_id].courses, event_id))
            IN  /\ sessions' = [sessions EXCEPT
                      ![session_id].courses[p[1]].events[p[2]] = updated_event]
                /\ store_ret' = TRUE
    /\ UNCHANGED <<file_to_session, added, added_with>>
    /\ UNCHANGED <<icsVars, valVars, vrVars, dedupVars, serviceVars>>

\* update_event(session_id, event_id, updated_event)
update_event(session_id, event_id, updated_event) ==
    /\ store_call' = StoreCallWith("update_event", session_id,
                                   [event_id |-> event_id, updated_event |-> updated_event])
    /\ IF sessions[session_id] = Absent
          \/ PlacesOf(sessions[session_id].courses, event_id) = {}
       THEN /\ store_ret' = FALSE
            /\ UNCHANGED sessions
       ELSE LET p == FirstPlace(PlacesOf(sessions[session_id].courses, event_id))
            IN  /\ sessions' = [sessions EXCEPT
                      ![session_id].courses[p[1]].events[p[2]] =
                          [updated_event EXCEPT !.d["id"] = event_id]]
                /\ store_ret' = TRUE
    /\ UNCHANGED <<file_to_session, added, added_with>>
    /\ UNCHANGED <<icsVars, valVars, vrVars, dedupVars, serviceVars>>

\* [e for e in course.events if e.id != event_id]
WithoutEvent(course_events, event_id) ==
    LET Keep(e) == e.d["id"] # event_id
    IN  SelectSeq(course_events, Keep)

\* delete_event(session_id, event_id)
delete_event(session_id, event_id) ==
    /\ store_call' = StoreCallWith("delete_event", session_id, event_id)
    /\ IF sessions[session_id] = Absent
       THEN /\ store_ret' = FALSE
            /\ UNCHANGED sessions
       ELSE /\ sessions' = [sessions EXCEPT ![session_id].courses =
                    [i \in 1..Len(@) |->
                        [@[i] EXCEPT !.events = WithoutEvent(@, event_id)]]]
            /\ store_ret' = TRUE
    /\ UNCHANGED <<file_to_session, added, added_with>>
    /\ UNCHANGED <<icsVars, valVars, vrVars, dedupVars, serviceVars>>

\* [c for c in multi_course.courses if c.course_code != course_code]
WithoutCourse(courses, course_code) ==
    LET Keep(c) == c.course_code # course_code
    IN  SelectSeq(courses, Keep)

\* delete_course(session_id, course_code)
delete_course(session_id, course_code) ==
    /\ store_call' = StoreCallWith("delete_course", session_id, course_code)
    /\ IF sessions[session_id] = Absent
       THEN /\ store_ret' = FALSE
            /\ UNCHANGED sessions
       ELSE /\ sessions' = [sessions EXCEPT ![session_id].courses =
                                WithoutCourse(@, course_code)]
            /\ store_ret' = TRUE
    /\ UNCHANGED <<file_to_session, added, added_with>>
    /\ UNCHANGED <<icsVars, valVars, vrVars, dedupVars, serviceVars>>

\* delete_session that leaves the file ids of the session in the map
delete_session_keeps_mappings(session_id) ==
    /\ store_call' = StoreCall("delete_session", session_id)
    /\ IF sessions[session_id] = Absent
       THEN /\ store_ret' = FALSE
            /\ UNCHANGED sessions
       ELSE /\ sessions' = [sessions EXCEPT ![session_id] = Absent]
            /\ store_ret' = TRUE
    /\ UNCHANGED <<file_to_session, added, added_with>>
    /\ UNCHANGED <<icsVars, valVars, vrVars, dedupVars, serviceVars>>

\* delete_session(session_id)
delete_session(session_id) ==
    /\ store_call' = StoreCall("delete_session", session_id)
    /\ IF sessions[session_id] = Absent
       THEN /\ store_ret' = FALSE
            /\ UNCHANGED <<sessions, file_to_session>>
       ELSE /\ file_to_session' = [k \in FileIds |->
                    IF file_to_session[k] = SessionRef(session_id) THEN Absent
                    ELSE file_to_session[k]]
            /\ sessions' = [sessions EXCEPT ![session_id] = Absent]
            /\ store_ret' = TRUE
    /\ UNCHANGED <<added, added_with>>
    /\ UNCHANGED <<icsVars, valVars, vrVars, dedupVars, serviceVars>>

\* editing the events of sessions fed by one upload
EditCourses == {c \in Courses : c.course_code \in {"CS301", "MATH205"}}

NextEdit ==
    \/ create_session
    \/ \E session_id \in SessionIds, course \in EditCourses :
          add_course_to_session(session_id, "file-1", course)
    \/ \E session_id \in SessionIds, event_id \in EventIdArgs,
          updated_event \in UpdatedEvents :
          update_event(session_id, event_id, updated_event)
    \/ \E session_id \in SessionIds, event_id \in EventIdArgs :
          delete_event(session_id, event_id)

SpecEdit == InitStorage /\ [][NextEdit]_vars

\* the life of sessions: every upload brings the same course
SessionCourses == {c \in Courses : c.course_code = "CS301"}

NextSessions ==
    \/ create_session
    \/ \E session_id \in SessionIds, file_id \in FileIds, course \in SessionCourses :
          add_course_to_session(session_id, file_id, course)
    \/ \E session_id \in SessionIds, course_code \in CourseCodes :
          delete_course(session_id, course_code)
    \/ \E session_id \in SessionIds :
          delete_event(session_id, PyStr(<<"e", "2">>))
    \/ \E session_id \in SessionIds : delete_session(session_id)

SpecSessions == InitStorage /\ [][NextSessions]_vars

\* --- generate_multi_course_ics (services/calendar_service.py)
\* str(n) for a natural number
RECURSIVE StrOfInt(_)
StrOfInt(n) ==
    LET digit == <<"0", "1", "2", "3", "4", "5", "6", "7", "8", "9">>[(n % 10) + 1]
    IN  IF n < 10 THEN <<digit>> ELSE Append(StrOfInt(n \div 10), digit)

\* f"Course Schedule - {n} Courses"
CourseScheduleName(n) ==
    <<"C","o","u","r","s","e"," ","S","c","h","e","d","u","l","e"," ","-"," ">>
    \o StrOfInt(n) \o <<" ","C","o","u","r","s","e","s">>

\* MultiCourseCalendar.total_courses
total_courses(multi_course) == Len(multi_course.courses)

\* MultiCourseCalendar.total_events
total_events(multi_course) == Len(get_all_events(multi_course))

\* the content of a text file
FileText(content) == [k |-> "text", v |-> content]

\* the entry of generate_multi_course_ics with the calendar named by the
\* number of events
generate_multi_course_ics_counts_events(session_id) ==
    /\ mpc.pc = "idle"
    /\ pc = "start"
    /\ sessions[session_id] # Absent
    /\ LET all_events == get_all_events(sessions[session_id])
       IN  IF all_events = <<>>
           THEN /\ mpc' = [pc |-> "raised", session_id |-> session_id]
                /\ UNCHANGED <<events, calendar_name>>
           ELSE /\ mpc' = [pc |-> "compiling", session_id |-> session_id]
                /\ events' = all_events
                /\ calendar_name' =
                      CourseScheduleName(total_events(sessions[session_id]))
    /\ UNCHANGED <<pc, idx, cal, log, document, files>>
    /\ UNCHANGED <<valVars, vrVars, dedupVars, storeVars, runVars, compatVars>>

\* generate_multi_course_ics(multi_course, session_id), lines 23-34, for the
\* calendar of a stored session: the events are flattened, an empty result
\* raises ValueError, else generate_ics is called with the name made of the
\* number of courses
generate_multi_course_ics(session_id) ==
    /\ mpc.pc = "idle"
    /\ pc = "start"
    /\ sessions[session_id] # Absent
    /\ LET all_events == get_all_events(sessions[session_id])
       IN  IF all_events = <<>>
           THEN /\ mpc' = [pc |-> "raised", session_id |-> session_id]
                /\ UNCHANGED <<events, calendar_name>>
           ELSE /\ mpc' = [pc |-> "compiling", session_id |-> session_id]
                /\ events' = all_events
                /\ calendar_name' =
                      CourseScheduleName(total_courses(sessions[session_id]))
    /\ UNCHANGED <<pc, idx, cal, log, document, files>>
    /\ UNCHANGED <<valVars, vrVars, dedupVars, storeVars, runVars, compatVars>>

\* lines 36-46: generate_ics has returned, the text is written to the file
\* of the session and the path is returned
generate_multi_course_ics_save ==
    /\ mpc.pc = "compiling"
    /\ pc = "done"
    /\ files' = [files EXCEPT ![mpc.session_id] = FileText(document)]
    /\ mpc' = [mpc EXCEPT !.pc = "returned"]
    /\ UNCHANGED <<icsVars, valVars, vrVars, dedupVars, storeVars, runVars, compatVars>>

\* sessions are filled, then one of them is exported; generate_ics runs
\* inside generate_multi_course_ics
NextExport ==
    \/ mpc.pc = "idle" /\ create_session
    \/ \E session_id \in SessionIds, course \in Courses :
          mpc.pc = "idle" /\ add_course_to_session(session_id, "file-1", course)
    \/ \E session_id \in SessionIds : generate_multi_course_ics(session_id)
    \/ mpc.pc = "compiling" /\ generate_ics_begin
    \/ mpc.pc = "compiling" /\ generate_ics_add
    \/ mpc.pc = "compiling" /\ generate_ics_return
    \/ generate_multi_course_ics_save

SpecExport == InitStorage /\ [][NextExport]_vars

\* --- ValidationResult on its own: any sequence of add_error / add_warning
FindingFields == {"title", "endDateTime", "type"}

\* the most errors, and the most warnings, one result collects
MaxFindings == 2

vr_add_error(field) ==
    /\ Len(vr.errors) < MaxFindings
    /\ vr' = add_error(vr, field, "message", <<>>)
    /\ UNCHANGED <<icsVars, valVars, dedupVars, storeVars, serviceVars>>

vr_add_warning(field) ==
    /\ Len(vr.warnings) < MaxFindings
    /\ vr' = add_warning(vr, field, "message", <<>>)
    /\ UNCHANGED <<icsVars, valVars, dedupVars, storeVars, serviceVars>>

InitVR ==
    /\ InitBatch(<<>>)
    /\ vr = NewValidationResult

NextVR ==
    \/ \E field \in FindingFields : vr_add_error(field)
    \/ \E field \in FindingFields : vr_add_warning(field)

SpecVR == InitVR /\ [][NextVR]_vars

\* ------------------------------------------------------------------------
\* Properties
\* ------------------------------------------------------------------------
\* the number of BEGIN:<what> lines of a document
CountBegin(doc, what) ==
    Cardinality({n \in 1..Len(doc) : doc[n].name = "BEGIN" /\ doc[n].value = what})

\* the number of content lines called `name`
CountLines(doc, name) == Cardinality({n \in 1..Len(doc) : doc[n].name = name})

\* the event encodes: _create_event returns for it
Encodes(e) == \E uid \in UuidPool : create_event(model_dump(e), uid).ok

\* the events the loop has been through, and those of them that encode
Processed == SubSeq(events, 1, idx - 1)

EmittedInputs == SelectSeq(Processed, Encodes)

\* every component added so far stands for the encodable event at its place
ComponentsMatchInputs == Len(cal.components) = Len(EmittedInputs)

MalformedEvent ==
    EventDict(With(Required, [type |-> PyStr(S_exam), id |-> PyStr(Id_evt_1),
                              startDateTime |-> PyStr(S_not_a_date)]))

ValidExam ==
    EventDict(With(Required, [type |-> PyStr(S_exam), id |-> PyStr(Id_evt_1)]))

\* the fields of e as given, whatever validation has written beside them
SameEvent(e, given) ==
    /\ e.model = given.model
    /\ \A key \in CalendarEventFields : e.d[key] = given.d[key]

\* C1: generate_ics skips every event whose encoding raises and emits all the
\* others, in input order: it raises only for an empty list, a returned
\* document has one VEVENT per event that encodes, in the order given, and a
\* malformed event next to a valid one gives exactly one VEVENT.
C1_FailureIsolation ==
    /\ pc = "raised" => events = <<>>
    /\ ComponentsMatchInputs
    /\ \A k \in 1..Len(cal.components) :
          cal.components[k].summary = EmittedInputs[k].d["title"]
    /\ pc = "done" =>
          /\ CountBegin(document, "VEVENT")
                = Cardinality({n \in 1..Len(events) : Encodes(events[n])})
          /\ Len(log) = Cardinality({n \in 1..Len(events) : ~Encodes(events[n])})
          /\ (Len(events) = 2 /\ SameEvent(events[1], MalformedEvent)
                /\ SameEvent(events[2], ValidExam))
                => CountBegin(document, "VEVENT") = 1

C1_Witness ==
    /\ pc = "done"
    /\ Len(events) = 2
    /\ SameEvent(events[1], MalformedEvent)
    /\ SameEvent(events[2], ValidExam)
    /\ CountBegin(document, "VEVENT") = 1
    /\ Len(log) = 1

\* C2: generate_ics on an empty list raises and returns no document: with an
\* empty input the call is either not yet made or has raised, and no document
\* exists.
C2_EmptyRejected ==
    events = <<>> => (pc \in {"start", "raised"} /\ document = <<>>)

C2_Witness == events = <<>> /\ pc = "raised" /\ document = <<>>

\* the event has a recurrence: the key is there and is not None
HasRecurrence(e) == e.d["recurrence"].k \notin {"absent", "none"}

\* the event has a recurrence that is not empty
HasNonEmptyRecurrence(e) ==
    /\ e.d["recurrence"].k = "dict"
    /\ \E f \in RecurrenceKeys : e.d["recurrence"].v[f] # Absent

\* C3 as stated: a single-event list always yields exactly one VEVENT, with
\* an RRULE iff the event had a recurrence and a VALARM iff it had none.
C3_Original ==
    (pc = "done" /\ Len(events) = 1) =>
        /\ CountBegin(document, "VEVENT") = 1
        /\ CountLines(document, "RRULE") = 1 <=> HasRecurrence(events[1])
        /\ CountBegin(document, "VALARM") = 1 <=> ~HasRecurrence(events[1])

\* C3 amended: a single-event list yields exactly one VEVENT when the event
\* encodes and none when it does not; an emitted VEVENT holds an RRULE iff the
\* event had a non-empty recurrence and a VALARM iff it had not, never both
\* and never neither.
C3_SingleEvent ==
    (pc = "done" /\ Len(events) = 1) =>
        LET n == CountBegin(document, "VEVENT")
            rrules == CountLines(document, "RRULE")
            alarms == CountBegin(document, "VALARM")
        IN  /\ n = IF Encodes(events[1]) THEN 1 ELSE 0
            /\ n = 1 =>
                /\ rrules = 1 <=> HasNonEmptyRecurrence(events[1])
                /\ alarms = 1 <=> ~HasNonEmptyRecurrence(events[1])
                /\ rrules + alarms = 1

C3_Witness ==
    /\ pc = "done"
    /\ Len(events) = 1
    /\ HasNonEmptyRecurrence(events[1])
    /\ CountBegin(document, "VEVENT") = 1
    /\ CountLines(document, "RRULE") = 1
    /\ CountBegin(document, "VALARM") = 0

\* both timestamps parse and are the same string
StartEqualsEnd(e) ==
    /\ FromIsoFormat(e.d["startDateTime"]).ok
    /\ e.d["startDateTime"] = e.d["endDateTime"]

\* C4 as stated: an event whose startDateTime equals its endDateTime is
\* skipped, and every other event of the batch that encodes is emitted.
C4_EqualTimestampsSkipped ==
    pc = "done" =>
        CountBegin(document, "VEVENT")
            = Cardinality({n \in 1..Len(events) :
                              Encodes(events[n]) /\ ~StartEqualsEnd(events[n])})

\* the event has an id of its own: the key is there and is not None
HasId(e) == e.d["id"].k \notin {"absent", "none"}

\* C5 as stated: every emitted UID is the event's id when it has one and a
\* generated identifier otherwise (a None id included), and is never empty
\* or None.
C5_UidFromIdOrFresh ==
    /\ ComponentsMatchInputs
    /\ \A k \in 1..Len(cal.components) :
        LET uid == cal.components[k].uid
            e == EmittedInputs[k]
        IN  /\ uid.k = "str" /\ uid.v # <<>>
            /\ IF HasId(e) THEN uid = e.d["id"] ELSE uid.v \in UuidPool

\* the recurrence has a count / an end date
HasCount(r) == r["count"].k \notin {"absent", "none"}

HasEndDate(r) == r["endDate"].k = "str" /\ r["endDate"].v # <<>>

\* C6: a recurrence with both endDate and count is encoded with the UNTIL
\* bound of its endDate (23:59 of that day, in the default zone) and no
\* COUNT; no emitted rule has more than one termination clause.
C6_UntilOverCount ==
    /\ ComponentsMatchInputs
    /\ \A k \in 1..Len(cal.components) :
        LET c == cal.components[k]
            e == EmittedInputs[k]
        IN  c.rrule # Absent =>
              /\ Cardinality(DOMAIN c.rrule.v \cap {"UNTIL", "COUNT"}) <= 1
              /\ (HasEndDate(e.d["recurrence"].v) /\ HasCount(e.d["recurrence"].v)) =>
                    /\ "UNTIL" \in DOMAIN c.rrule.v
                    /\ "COUNT" \notin DOMAIN c.rrule.v
                    /\ e.d["recurrence"].v["endDate"] = EndDateA =>
                          c.rrule.v["UNTIL"] =
                            <<[y |-> 2026, mo |-> 4, d |-> 30, h |-> 23,
                               mi |-> 59, s |-> 0, tz |-> default_timezone]>>

C6_Witness ==
    /\ pc = "done"
    /\ \E k \in 1..Len(cal.components) :
        /\ cal.components[k].rrule # Absent
        /\ "UNTIL" \in DOMAIN cal.components[k].rrule.v
        /\ Len(EmittedInputs) >= k
        /\ HasEndDate(EmittedInputs[k].d["recurrence"].v)
        /\ HasCount(EmittedInputs[k].d["recurrence"].v)

\* the repeat-day token of weekday d, 0 being Sunday
WeekdayToken(d) ==
    CASE d = 0 -> "SU" [] d = 1 -> "MO" [] d = 2 -> "TU" [] d = 3 -> "WE"
      [] d = 4 -> "TH" [] d = 5 -> "FR" [] d = 6 -> "SA"

\* C7 as stated: BYDAY is emitted only for a present, non-empty daysOfWeek,
\* holds the token of each day d in 0..6 in input order, and no value outside
\* 0..6 is ever mapped to a weekday token.
C7_WeekdayTokens ==
    /\ ComponentsMatchInputs
    /\ \A k \in 1..Len(cal.components) :
        LET c == cal.components[k]
            days == EmittedInputs[k].d["recurrence"].v["daysOfWeek"]
        IN  c.rrule # Absent =>
              /\ "BYDAY" \in DOMAIN c.rrule.v <=> (days.k = "list" /\ days.v # <<>>)
              /\ "BYDAY" \in DOMAIN c.rrule.v =>
                    /\ Len(c.rrule.v["BYDAY"]) = Len(days.v)
                    /\ \A n \in 1..Len(days.v) :
                          /\ days.v[n] \in 0..6
                          /\ c.rrule.v["BYDAY"][n] = WeekdayToken(days.v[n])

\* the reminder table of the specification, offsets in minutes
ReminderTable(t) ==
    CASE t = PyStr(S_exam) ->
            <<0 - 1440, "Exam tomorrow!">>
      [] t = PyStr(S_assignment) ->
            <<0 - 2880, "Assignment due in 2 days">>
      [] t = PyStr(S_lecture) ->
            <<0 - 30, "Class starts in 30 minutes">>
      [] t = PyStr(S_project) ->
            <<0 - 4320, "Project deadline in 3 days">>
      [] OTHER ->
            <<0 - 60, "Event starting soon">>

\* C8: every alarm the compiler attaches is the table entry of the event's
\* type, and the fallback (1 hour before, 'Event starting soon') for 'other',
\* for a missing type and for every type outside the table, office_hours
\* included.
C8_ReminderTable ==
    /\ ComponentsMatchInputs
    /\ \A k \in 1..Len(cal.components) :
        LET c == cal.components[k]
            t == Get(EmittedInputs[k].d, "type", PyStr(S_other))
        IN  \A n \in 1..Len(c.alarms) :
              /\ c.alarms[n].action = "DISPLAY"
              /\ <<c.alarms[n].trigger, c.alarms[n].description>> = ReminderTable(t)

C8_Witness ==
    /\ pc = "done"
    /\ Len(events) = 2
    /\ Len(cal.components) = 2
    /\ events[1].d["type"] = PyStr(S_office_hours)
    /\ events[2].d["type"] = PyStr(S_exam)
    /\ cal.components[1].alarms # <<>>
    /\ cal.components[1].alarms[1].trigger = 0 - 60
    /\ cal.components[2].alarms # <<>>
    /\ cal.components[2].alarms[1].description = "Exam tomorrow!"

\* the example as a dict, or built through the CalendarEvent model
IsExample(e) == \A key \in DOMAIN ExampleFields \ {"recurrence"} :
                    e.d[key] = ExampleFields[key]

IsExampleRecurrence(r) ==
    /\ r.k = "dict"
    /\ r.v["frequency"] = PyStr(S_weekly)
    /\ r.v["daysOfWeek"] = PyList(<<1, 3>>)
    /\ r.v["endDate"] = EndDateA
    /\ ~HasCount(r.v)

\* C9: the weekly lecture of the example validates with is_valid true and no
\* errors, and compiles to a rule with FREQ=WEEKLY, BYDAY=MO,WE and UNTIL at
\* 23:59 of 2026-04-30 in the default zone, with no alarm.
C9_WeeklyLectureExample ==
    /\ ComponentsMatchInputs
    /\ vpc = "done" =>
          \A n \in 1..Len(events) :
              (IsExample(events[n]) /\ IsExampleRecurrence(events[n].d["recurrence"])) =>
                  /\ results[n].is_valid
                  /\ results[n].errors = <<>>
    /\ \A k \in 1..Len(cal.components) :
        LET c == cal.components[k]
            e == EmittedInputs[k]
        IN  (IsExample(e) /\ IsExampleRecurrence(e.d["recurrence"])) =>
              /\ c.rrule # Absent
              /\ c.rrule.v["FREQ"] = <<"WEEKLY">>
              /\ c.rrule.v["BYDAY"] = <<"MO", "WE">>
              /\ c.rrule.v["UNTIL"] =
                    <<[y |-> 2026, mo |-> 4, d |-> 30, h |-> 23, mi |-> 59,
                       s |-> 0, tz |-> default_timezone]>>
              /\ DOMAIN c.rrule.v \subseteq {"FREQ", "BYDAY", "UNTIL", "INTERVAL"}
              /\ e = ExampleEvent => DOMAIN c.rrule.v = {"FREQ", "BYDAY", "UNTIL"}
              /\ c.alarms = <<>>

C9_Witness ==
    /\ pc = "done"
    /\ vpc = "done"
    /\ Len(events) = 1
    /\ SameEvent(events[1], ExampleEvent)
    /\ results[1].is_valid
    /\ CountLines(document, "RRULE") = 1
    /\ CountBegin(document, "VALARM") = 0

\* C10: in every ValidationResult is_valid is false exactly when an error
\* has been recorded, and a step that records a warning leaves is_valid and
\* the errors as they were.
C10_ValidIffNoErrors ==
    /\ [](vr.is_valid <=> vr.errors = <<>>)
    /\ [][vr'.warnings # vr.warnings =>
            (vr'.is_valid = vr.is_valid /\ vr'.errors = vr.errors)]_vars

C10_Witness ==
    /\ Len(vr.warnings) >= 1
    /\ Len(vr.errors) >= 1
    /\ ~vr.is_valid

\* --- what validate_events returned for the n-th event
HasFinding(findings, field) ==
    \E i \in 1..Len(findings) : findings[i].field = field

\* the timestamp under `key` as validate_event parses it
ParsedTimestamp(e, key) ==
    IF e.d[key].k = "str" THEN FromIsoFormat(PyStr(ReplaceZ(e.d[key].v)))
    ELSE Raise("ValueError")

BothTimestampsParse(e) ==
    ParsedTimestamp(e, "startDateTime").ok /\ ParsedTimestamp(e, "endDateTime").ok

EndNotAfterStart(e) ==
    DatetimeLe(ParsedTimestamp(e, "endDateTime").val,
               ParsedTimestamp(e, "startDateTime").val)

\* C11: validating a modern-shape event records an error on endDateTime when
\* its end is not after its start (equal timestamps included), and records
\* none on endDateTime when both timestamps parse and the end is strictly
\* after the start. Stated for a batch of one event without recurrence, so
\* that the timestamps are all that validation can stumble on.
C11_EndAfterStart ==
    (vpc # "idle" /\ Len(events) = 1 /\ BothTimestampsParse(events[1])
        /\ ~Truthy(Get(events[1].d, "recurrence", PyNone)))
    => IF EndNotAfterStart(events[1])
       THEN vpc = "done" /\ HasFinding(results[1].errors, "endDateTime")
       ELSE vpc = "done" => ~HasFinding(results[1].errors, "endDateTime")

\* an event whose end equals its start was validated and got the error
C11_Witness ==
    /\ vpc = "done" /\ Len(events) = 1
    /\ events[1].d["startDateTime"] = events[1].d["endDateTime"]
    /\ BothTimestampsParse(events[1])
    /\ HasFinding(results[1].errors, "endDateTime")

\* C12: validation reports a type error exactly when the event's type is
\* outside the closed EventType set; every member of the set, office_hours
\* included, is accepted without a type error.
C12_TypeErrorIffOutsideEventType ==
    vpc = "done" =>
        \A n \in 1..Len(events) :
            events[n].d["type"].k = "str" =>
                (HasFinding(results[n].errors, "type")
                    <=> events[n].d["type"].v \notin EventType)

\* an event of an unknown type and one of a known type were validated: the
\* first got the type error, the second did not
C12_Witness ==
    /\ vpc = "done" /\ Len(events) = 2
    /\ events[1].d["type"] = PyStr(S_quiz)
    /\ HasFinding(results[1].errors, "type")
    /\ events[2].d["type"] = PyStr(S_exam)
    /\ ~HasFinding(results[2].errors, "type")

\* the modern shape's required fields, as the specification lists them
ModernRequired == {"title", "startDateTime", "endDateTime", "location"}

MissingOrEmpty(e, field) == ~HasKey(e.d, field) \/ ~Truthy(e.d[field])

HasRequiredError(result, field) ==
    \E i \in 1..Len(result.errors) :
        /\ result.errors[i].field = field
        /\ result.errors[i].message = RequiredMessage(field)

\* C13: validating a modern-shape event (one with the key startDateTime)
\* records a "... is required" error for each of title, startDateTime,
\* endDateTime and location that is missing or empty, and none for a field
\* that is there; the legacy fields date and time are not asked for.
C13_ModernRequiredFields ==
    vpc = "done" =>
        \A n \in 1..Len(events) :
            /\ \A field \in ModernRequired :
                  MissingOrEmpty(events[n], field)
                      <=> HasRequiredError(results[n], field)
            /\ ~HasFinding(results[n].errors, "date")
            /\ ~HasFinding(results[n].errors, "time")

\* an event without the key endDateTime was validated and is invalid, for
\* the missing end and nothing else
C13_Witness ==
    /\ vpc = "done" /\ Len(events) = 1
    /\ ~HasKey(events[1].d, "endDateTime")
    /\ ~results[1].is_valid
    /\ \A i \in 1..Len(results[1].errors) :
          results[1].errors[i].field = "endDateTime"

\* the recurrence dict of an event that has one
RecurrenceOf(e) == e.d["recurrence"].v

HasRecurrenceDict(e) ==
    e.d["recurrence"].k = "dict" /\ Truthy(e.d["recurrence"])

\* daysOfWeek is a list of integers, each within 0..6
DaysWellFormed(days) ==
    days.k = "list" /\ \A n \in 1..Len(days.v) : days.v[n] \in 0..6

\* C14 as stated: validation reports an error on recurrence.daysOfWeek when
\* the value given is not a sequence, or holds a non-integer or a value
\* outside 0..6, and reports none when every element is an integer in 0..6.
C14_Original ==
    vpc = "done" =>
        \A n \in 1..Len(events) :
            HasRecurrenceDict(events[n]) =>
                LET days == Get(RecurrenceOf(events[n]), "daysOfWeek", PyNone)
                IN  days.k \notin {"absent", "none"} =>
                        (HasFinding(results[n].errors, "recurrence.daysOfWeek")
                            <=> ~DaysWellFormed(days))

\* C14 as amended: the error on recurrence.daysOfWeek is reported exactly
\* when the value is truthy (not None, 0, "" or an empty list) and is not a
\* list of integers within 0..6; a missing, None or falsy value gets none.
C14_DaysOfWeekChecked ==
    vpc = "done" =>
        \A n \in 1..Len(events) :
            HasRecurrenceDict(events[n]) =>
                LET days == Get(RecurrenceOf(events[n]), "daysOfWeek", PyNone)
                IN  HasFinding(results[n].errors, "recurrence.daysOfWeek")
                        <=> (Truthy(days) /\ ~DaysWellFormed(days))

\* a weekly event on days 6 and 7 was validated and got the error
C14_Witness ==
    /\ vpc = "done" /\ Len(events) = 1
    /\ HasRecurrenceDict(events[1])
    /\ RecurrenceOf(events[1])["daysOfWeek"] = PyList(<<6, 7>>)
    /\ HasFinding(results[1].errors, "recurrence.daysOfWeek")

\* the date of the event's startDateTime, where it parses
StartDateOf(e) ==
    LET dt == ParsedTimestamp(e, "startDateTime").val
    IN  [k |-> "date", y |-> dt.y, mo |-> dt.mo, d |-> dt.d]

\* a YYYY-MM-DD string naming a day of the calendar
ParsesAsDate(x) == MatchesDatePattern(x.v) /\ StrptimeDate(x).ok

\* the end date is unparsable, or is a day before the day the event starts
EndDateRefused(e, end) ==
    \/ ~ParsesAsDate(end)
    \/ DateOrdinal(StrptimeDate(end).val) < DateOrdinal(StartDateOf(e))

\* C15 as stated: for a modern-shape event whose recurrence has an endDate,
\* validation reports an error on recurrence.endDate when the endDate is
\* unparsable or earlier than the start date, and none when it is on or
\* after the start date.
C15_Original ==
    vpc = "done" =>
        \A n \in 1..Len(events) :
            (HasRecurrenceDict(events[n])
                /\ ParsedTimestamp(events[n], "startDateTime").ok) =>
                LET end == Get(RecurrenceOf(events[n]), "endDate", PyNone)
                IN  end.k = "str" =>
                        (HasFinding(results[n].errors, "recurrence.endDate")
                            <=> EndDateRefused(events[n], end))

\* C15 as amended: the same for a non-empty endDate; an empty endDate is
\* treated as not given and gets no error.
C15_EndDateChecked ==
    vpc = "done" =>
        \A n \in 1..Len(events) :
            (HasRecurrenceDict(events[n])
                /\ ParsedTimestamp(events[n], "startDateTime").ok) =>
                LET end == Get(RecurrenceOf(events[n]), "endDate", PyNone)
                IN  end.k \in {"str", "none", "absent"} =>
                        (HasFinding(results[n].errors, "recurrence.endDate")
                            <=> (Truthy(end) /\ EndDateRefused(events[n], end)))

\* an event recurring until the day it starts was validated without an
\* end-date error
C15_Witness ==
    /\ vpc = "done"
    /\ \E n \in 1..Len(events) :
          /\ HasRecurrenceDict(events[n])
          /\ RecurrenceOf(events[n])["endDate"] = PyStr(IsoDate(2026, 1, 20))
          /\ StartDateOf(events[n]) = [k |-> "date", y |-> 2026, mo |-> 1, d |-> 20]
          /\ ~HasFinding(results[n].errors, "recurrence.endDate")

HasFindingWith(findings, field, message) ==
    \E i \in 1..Len(findings) :
        findings[i].field = field /\ findings[i].message = message

\* C16: validation records a title error when the title has fewer than 3
\* characters after trimming (empty and blank titles included) and not
\* otherwise; a title of more than 200 characters gets a warning, which by
\* itself is no error and leaves is_valid as the errors alone decide it.
C16_TitleLength ==
    vpc = "done" =>
        \A n \in 1..Len(events) :
            LET title == events[n].d["title"]
                r == results[n]
            IN  title.k = "str" =>
                    /\ HasFindingWith(r.errors, "title",
                                      "Title must be at least 3 characters")
                           <=> Len(Strip(title.v)) < 3
                    /\ HasFinding(r.warnings, "title") <=> Len(title.v) > 200
                    /\ (Len(title.v) > 200 /\ Len(Strip(title.v)) >= 3)
                           => ~HasFinding(r.errors, "title")
                    /\ r.is_valid <=> r.errors = <<>>

\* an event with a title of 201 characters was validated: it is valid and
\* carries the title warning
C16_Witness ==
    /\ vpc = "done" /\ Len(events) = 1
    /\ events[1].d["title"] = PyStr(TitleOfLength(201))
    /\ results[1].is_valid
    /\ HasFinding(results[1].warnings, "title")

\* the signature of the specification: lower-cased trimmed title, start,
\* end, type
ModernSignature(e) ==
    <<Strip(StrLower(e.d["title"].v)), GetOrNone(e, "startDateTime"),
      GetOrNone(e, "endDateTime"), GetOrNone(e, "type")>>

ModernShape(evs) ==
    \A n \in 1..Len(evs) :
        /\ ~evs[n].model /\ HasKey(evs[n].d, "startDateTime")
        /\ evs[n].d["title"].k = "str"

\* evs with each event next to its position, and back
Numbered(evs) == [n \in 1..Len(evs) |-> [n |-> n, e |-> evs[n]]]

Unnumbered(l) == [i \in 1..Len(l) |-> l[i].e]

\* the n-th event has the signature of an earlier one
RepeatsEarlier(evs, n) ==
    \E m \in 1..(n - 1) : ModernSignature(evs[m]) = ModernSignature(evs[n])

FirstOccurrences(evs) ==
    Unnumbered(SelectSeq(Numbered(evs), LAMBDA x : ~RepeatsEarlier(evs, x.n)))

LaterOccurrences(evs) ==
    Unnumbered(SelectSeq(Numbered(evs), LAMBDA x : RepeatsEarlier(evs, x.n)))

\* C17: on a batch of modern-shape events, deduplication keeps an event
\* exactly when no earlier event of the batch has its signature (lower-cased
\* trimmed title, startDateTime, endDateTime, type) and reports every other
\* event as a duplicate: events that differ in a timestamp are never
\* duplicates of each other, events that differ only in description are.
C17_SignatureDedup ==
    (dpc \in {"removed", "found"} /\ ModernShape(dedup_in)) =>
        /\ unique_events = FirstOccurrences(dedup_in)
        /\ dpc = "found" => duplicates = LaterOccurrences(dedup_in)

\* remove_duplicates dropped an event that differs from the first only in
\* its description
C17_Witness ==
    /\ dpc = "removed" /\ dedup_calls = 1
    /\ Len(dedup_in) = 2 /\ Len(unique_events) = 1
    /\ ModernShape(dedup_in)
    /\ dedup_in[1].d["description"] # dedup_in[2].d["description"]
    /\ \A key \in EventKeys \ {"description"} :
          dedup_in[1].d[key] = dedup_in[2].d[key]

\* u is l with some elements left out, the others in l's order
IsSubsequence(u, l) ==
    \E f \in [1..Len(u) -> 1..Len(l)] :
        /\ \A i \in 1..Len(u) : l[f[i]] = u[i]
        /\ \A i, j \in 1..Len(u) : i < j => f[i] < f[j]

\* C18: remove_duplicates never returns more events than it was given, keeps
\* the events it returns in the order they had, and given its own output
\* returns it unchanged.
C18_DedupIdempotent ==
    dpc = "removed" =>
        /\ Len(unique_events) <= Len(dedup_in)
        /\ IsSubsequence(unique_events, dedup_in)
        /\ dedup_calls >= 2 => unique_events = dedup_in

\* a batch of two events lost one to the first call, and the second call
\* returned the remaining one
C18_Witness ==
    /\ dpc = "removed" /\ dedup_calls = 2
    /\ Len(events) = 2 /\ Len(dedup_in) = 1
    /\ unique_events = <<events[1]>>

RECURSIVE SumOfEventCounts(_)
SumOfEventCounts(courses) ==
    IF courses = <<>> THEN 0
    ELSE Len(Head(courses).events) + SumOfEventCounts(Tail(courses))

\* the k-th event of the i-th course is at place `offset + k` of `flat`,
\* offset being the number of events of the courses before the i-th
CourseAt(flat, courses, i) ==
    LET offset == SumOfEventCounts(SubSeq(courses, 1, i - 1))
    IN  \A k \in 1..Len(courses[i].events) :
            offset + k <= Len(flat) /\ flat[offset + k] = courses[i].events[k]

\* C19: after any sequence of add_course_to_session calls,
\* get_all_events_in_session returns the events of the session's courses,
\* course after course in the order the courses were added, each course's
\* events in their own order; as many events as the courses have together.
C19_FlattenInAdditionOrder ==
    store_call.op = "get_all_events_in_session" =>
        LET courses == added[store_call.session_id]
        IN  /\ Len(store_ret) = SumOfEventCounts(courses)
            /\ \A i \in 1..Len(courses) : CourseAt(store_ret, courses, i)

\* a session was given a course of 3 events, then one of 2: the 5 events
\* are returned, the first course's 3 first
C19_Witness ==
    /\ store_call.op = "get_all_events_in_session"
    /\ Len(added[store_call.session_id]) = 2
    /\ Len(added[store_call.session_id][1].events) = 3
    /\ Len(added[store_call.session_id][2].events) = 2
    /\ Len(store_ret) = 5
    /\ SubSeq(store_ret, 1, 3) = added[store_call.session_id][1].events

\* C20: generate_ics never writes to its input: every step of it, from the
\* empty-list check to the return, encoding or skipping an event, leaves the
\* list of events and every event record as they were.
C20_InputNotMutated ==
    [][(pc # "start" \/ pc' # "start") => events' = events]_vars

\* a compilation that encoded an event without an id (a UID was generated
\* for it) and skipped another has returned
C20_Witness ==
    /\ pc = "done" /\ Len(events) = 2
    /\ Len(cal.components) = 1 /\ Len(log) = 1
    /\ \E n \in 1..2 : Encodes(events[n]) /\ ~HasKey(events[n].d, "id")

\* C21: validation hands its findings back through the ValidationResult
\* only: the call of validate_events leaves every event record with the keys
\* and values it had.
C21_EventUnchanged ==
    [][vpc' # vpc => events' = events]_vars

\* a valid event was validated and now carries a key it did not have
C21_Witness ==
    /\ vpc = "done" /\ Len(events) = 1
    /\ results[1].is_valid
    /\ HasKey(events[1].d, "_parsed_start_dt")
    /\ HasKey(events[1].d, "_parsed_end_dt")

C23_Compatibility ==
    compat # PyNone =>
        LET parses == from_ical(compat_in).ok
            wrapped == \E i \in 1..Len(compat_in) :
                          compat_in[i].name = "BEGIN" /\ compat_in[i].value = "VCALENDAR"
            versioned == \E i \in 1..Len(compat_in) :
                          compat_in[i].name = "VERSION" /\ compat_in[i].value = "2.0"
            prodid == \E i \in 1..Len(compat_in) : compat_in[i].name = "PRODID"
        IN  /\ ~compat.is_valid <=> (~parses \/ ~wrapped \/ ~versioned)
            /\ ~compat.is_valid <=> compat.errors # <<>>
            /\ (parses /\ ~prodid) =>
                  compat.warnings = <<"Missing PRODID (recommended)">>
            /\ prodid => compat.warnings = <<>>
            /\ compat_in = document =>
                  compat.is_valid /\ compat.errors = <<>>

\* a generated document with two events passed the check
C23_Witness ==
    /\ compat # PyNone
    /\ compat_in = document
    /\ Len(cal.components) = 2
    /\ compat.is_valid

\* a document without its PRODID line got the warning and stayed valid
C23_WitnessProdid ==
    /\ compat # PyNone
    /\ compat.is_valid
    /\ compat.warnings # <<>>

\* C24: delete_event returns True only when the session held an event with
\* that id, and the events with that id are then gone; it returns False when
\* the session does not exist or holds no event with that id, and then the
\* sessions are as they were.
C24_DeleteEventReturn ==
    [][store_call'.op = "delete_event" =>
        LET session_id == store_call'.session_id
            event_id == store_call'.arg
            existed == /\ sessions[session_id] # Absent
                       /\ PlacesOf(sessions[session_id].courses, event_id) # {}
        IN  /\ store_ret' = existed
            /\ existed => PlacesOf(sessions'[session_id].courses, event_id) = {}
            /\ ~existed => sessions' = sessions]_vars

\* delete_event was called with an id no event of the existing session has
C24_Witness ==
    /\ store_call.op = "delete_event"
    /\ store_call.arg = PyStr(<<"e", "9">>)
    /\ sessions[store_call.session_id] # Absent
    /\ Len(get_all_events(sessions[store_call.session_id])) = 3
    /\ store_ret = TRUE

\* C25: get_course_by_file_id(f) returns the course that was added together
\* with file id f, and None when f was never added.
C25_CourseOfFile ==
    store_call.op = "get_course_by_file_id" =>
        store_ret = IF added_with[store_call.file_id] = Absent THEN PyNone
                    ELSE added_with[store_call.file_id]

\* one session got a course with events under file-1 and another course
\* under file-2; the lookup of file-2 returned the course of file-1
C25_Witness ==
    /\ store_call.op = "get_course_by_file_id"
    /\ store_call.file_id = "file-2"
    /\ file_to_session["file-1"] = file_to_session["file-2"]
    /\ added_with["file-1"] # Absent /\ added_with["file-2"] # Absent
    /\ added_with["file-1"] # added_with["file-2"]
    /\ store_ret = added_with["file-1"]

\* the sessions with the event at place p of session_id replaced by e
Replaced(session_id, p, e) ==
    [sid \in SessionIds |->
        IF sid # session_id THEN sessions[sid]
        ELSE [sessions[sid] EXCEPT !.courses =
                [i \in 1..Len(@) |->
                    IF i # p[1] THEN @[i]
                    ELSE [@[i] EXCEPT !.events =
                            [j \in 1..Len(@) |-> IF j = p[2] THEN e ELSE @[j]]]]]]

\* C26: update_event on an event the session holds puts the given event,
\* with id = event_id, at the place of that event and returns True; every
\* other event, course and session and the file map stay as they were. When
\* the session or the id is not found it returns False and nothing changes.
C26_UpdateInPlace ==
    [][store_call'.op = "update_event" =>
        LET session_id == store_call'.session_id
            event_id == store_call'.arg.event_id
            e == store_call'.arg.updated_event
            found == /\ sessions[session_id] # Absent
                     /\ \E i \in 1..Len(sessions[session_id].courses) :
                          \E j \in 1..Len(sessions[session_id].courses[i].events) :
                            sessions[session_id].courses[i].events[j].d["id"] = event_id
        IN  /\ store_ret' = found
            /\ file_to_session' = file_to_session
            /\ ~found => sessions' = sessions
            /\ found =>
                 \E i \in 1..Len(sessions[session_id].courses) :
                   \E j \in 1..Len(sessions[session_id].courses[i].events) :
                     /\ sessions[session_id].courses[i].events[j].d["id"] = event_id
                     /\ sessions' = Replaced(session_id, <<i, j>>,
                                             [model |-> TRUE,
                                              d |-> [key \in DOMAIN e.d |->
                                                       IF key = "id" THEN event_id
                                                       ELSE e.d[key]]])]_vars

\* the second event of the second course of a session was replaced by an
\* event that came with another id, while the other session holds the
\* event of the same id untouched
C26_Witness ==
    /\ store_call.op = "update_event"
    /\ store_ret = TRUE
    /\ \E sid \in SessionIds, other \in SessionIds :
        /\ sid = store_call.session_id /\ other # sid
        /\ sessions[sid] # Absent /\ sessions[other] # Absent
        /\ Len(sessions[sid].courses) = 2
        /\ sessions[sid].courses[2].course_code = "CS301"
        /\ sessions[sid].courses[2].events[2].d["type"] = PyStr(S_quiz)
        /\ sessions[sid].courses[2].events[2].d["id"] = PyStr(<<"e", "2">>)
        /\ Len(sessions[other].courses) = 1
        /\ sessions[other].courses[1].events[2].d["type"] = PyStr(S_exam)

\* every file id of the map points to a session that exists
MappingsPointToSessions ==
    \A file_id \in FileIds :
        file_to_session[file_id] # Absent =>
            sessions[file_to_session[file_id].v] # Absent

\* C29: after every call of create_session, add_course_to_session,
\* delete_course, delete_event and delete_session every mapped file id points
\* to an existing session; add_course_to_session on an unknown session
\* returns False and leaves the map as it was; delete_session of an existing
\* session removes the session and exactly the mappings to it, and leaves
\* the other sessions as they were.
C29_MappingsPointToSessions ==
    [][/\ MappingsPointToSessions'
       /\ (store_call'.op = "add_course_to_session"
              /\ sessions[store_call'.session_id] = Absent) =>
             /\ store_ret' = FALSE
             /\ file_to_session' = file_to_session
             /\ sessions' = sessions
       /\ (store_call'.op = "delete_session"
              /\ sessions[store_call'.session_id] # Absent) =>
             /\ store_ret' = TRUE
             /\ sessions'[store_call'.session_id] = Absent
             /\ \A sid \in SessionIds \ {store_call'.session_id} :
                   sessions'[sid] = sessions[sid]
             /\ \A file_id \in FileIds :
                   file_to_session'[file_id] =
                     IF file_to_session[file_id] = SessionRef(store_call'.session_id)
                     THEN Absent ELSE file_to_session[file_id]]_vars

\* a session that had a file was deleted and its mapping is gone, while the
\* other session still has its course and its file
C29_Witness ==
    /\ store_call.op = "delete_session"
    /\ store_ret = TRUE
    /\ added_with["file-1"] # Absent /\ file_to_session["file-1"] = Absent
    /\ file_to_session["file-2"] # Absent
    /\ file_to_session["file-2"].v # store_call.session_id
    /\ Len(sessions[file_to_session["file-2"].v].courses) = 1

\* the values of the lines of one property, in the order of the text
ValuesOf(doc, name) ==
    LET Named(l) == l.name = name
        lines == SelectSeq(doc, Named)
    IN  [k \in 1..Len(lines) |-> lines[k].value]

C27_WitnessRaised ==
    /\ mpc.pc = "raised"
    /\ Len(sessions[mpc.session_id].courses) = 1

\* C28: the two checks of the start date against today only ever warn: the
\* result has the past warning exactly when the start date is more than 365
\* days before today, the future warning exactly when it is more than 730
\* days after today (none at 365 and at 730 days), neither message is ever
\* among the errors, and is_valid is decided by the errors alone.
C28_SanityWarningsOnly ==
    vpc = "done" =>
        \A n \in 1..Len(events) :
            LET parsed == ParsedTimestamp(events[n], "startDateTime").ok
                days_ago == DateOrdinal(date_today) - DateOrdinal(StartDateOf(events[n]))
                past == "Event is {days_ago} days in the past"
                future == "Event is {days_ahead} days in the future"
            IN  /\ HasFindingWith(results[n].warnings, "startDateTime", past)
                      <=> (parsed /\ days_ago > 365)
                /\ HasFindingWith(results[n].warnings, "startDateTime", future)
                      <=> (parsed /\ 0 - days_ago > 730)
                /\ \A i \in 1..Len(results[n].errors) :
                      results[n].errors[i].message \notin {past, future}
                /\ results[n].is_valid <=> results[n].errors = <<>>

\* validation on 2026-01-10 of an event that starts on 2025-01-10, 365 days
\* before, together with one that starts ten days after: the first is valid
\* and has no warning
C28_Witness ==
    /\ vpc = "done" /\ Len(events) = 2
    /\ date_today = [k |-> "date", y |-> 2026, mo |-> 1, d |-> 10]
    /\ \A n \in 1..2 : ParsedTimestamp(events[n], "startDateTime").ok
    /\ StartDateOf(events[1]) = [k |-> "date", y |-> 2025, mo |-> 1, d |-> 10]
    /\ results[1].warnings = <<>> /\ results[1].is_valid
    /\ StartDateOf(events[2]) = [k |-> "date", y |-> 2026, mo |-> 1, d |-> 20]

\* C30: no emitted rule has a COUNT clause; the rule of a recurrence that has
\* a count and no end date has FREQ and at most INTERVAL and BYDAY beside
\* it, and so no termination clause.
C30_NeverCount ==
    /\ ComponentsMatchInputs
    /\ \A k \in 1..Len(cal.components) :
        LET c == cal.components[k]
            r == EmittedInputs[k].d["recurrence"].v
        IN  c.rrule # Absent =>
              /\ "COUNT" \notin DOMAIN c.rrule.v
              /\ (HasCount(r) /\ ~HasEndDate(r)) =>
                    /\ "FREQ" \in DOMAIN c.rrule.v
                    /\ DOMAIN c.rrule.v \subseteq {"FREQ", "INTERVAL", "BYDAY"}
    /\ \A i \in 1..Len(document) :
          document[i].name = "RRULE" => "COUNT" \notin DOMAIN document[i].value

\* a daily recurrence of count 10 without an end date was emitted as a rule
\* of FREQ alone
C30_Witness ==
    /\ pc = "done"
    /\ \E k \in 1..Len(cal.components) :
        /\ cal.components[k].rrule # Absent
        /\ Len(EmittedInputs) >= k
        /\ EmittedInputs[k].d["recurrence"].v["count"] = PyInt(10)
        /\ ~HasEndDate(EmittedInputs[k].d["recurrence"].v)
        /\ DOMAIN cal.components[k].rrule.v = {"FREQ"}
        /\ \E i \in 1..Len(document) : document[i].name = "RRULE"

====
